---- MODULE Spec2Model ----
(***************************************************************************)
(* Model of the batch pipeline of ProcessPDFsUseCase (internal/usecase):   *)
(* Execute, the worker goroutines, the goroutine that closes the results   *)
(* channel, replaceOriginalFile, and the ProcessingStatus entity that the  *)
(* aggregating loop of Execute updates.                                    *)
(*                                                                         *)
(* Files are numbered 1..files in the order ListPDFFiles returned them.    *)
(* An error value is a record [kind, n]; n is the attempt number of a      *)
(* failed Compress call or the step number of a failed replacement.        *)
(* Floating-point percentages are kept rounded down to an integer.         *)
(***************************************************************************)
EXTENDS Integers, Sequences, FiniteSets, TLC

\* ---------------------------------------------------------------- bounds
MaxFiles   == 2
MaxWorkers == 2
MaxRetry   == 2
OrigSize   == 2
MaxLevel   == 100
MaxAdds    == 3
MaxImages  == 2
MaxLaunches == 4
MaxLines    == 5
MaxCleanups == 2
\* The sizes of the TUI's log channel (100), of a batch of the log
\* processor (20) and of the log buffer (1000), scaled down.
LogChanCap  == 2
LogBatchSize == 2
MaxLogBufferSize == 3

Files       == 1..MaxFiles
Workers     == 1..MaxWorkers
Launches    == 1..MaxLaunches
Cleanups    == 1..MaxCleanups
WorkerCfgs  == (-1)..MaxWorkers
RetryCfgs   == (-1)..MaxRetry
Levels      == {5, 10, 50, 90, 95}

\* The arguments the entity functions are applied to on their own.
LevelInputs   == (-MaxLevel)..MaxLevel
QualityInputs == 0..(MaxLevel + 10)
\* <<size of the input file, size of the compressor's output>>
SizeInputs    == {<<0, 1>>, <<1, OrigSize>>, <<2 * OrigSize, 1>>}
RatioInputs   == {-1, 0, 1}

\* ---------------------------------------------------------------- errors
Err(kind, n) == [kind |-> kind, n |-> n]
Nil          == Err("nil", 0)

\* ------------------------------------------------------- CompressionResult
NoResult ==
    [CurrentFile |-> 0, OriginalSize |-> 0, CompressedSize |-> 0,
     CompressionRatio |-> 0, SavedSpace |-> 0, Success |-> FALSE, Error |-> Nil]

CalculateCompressionRatio(cr) ==
    IF cr.OriginalSize > 0
    THEN [cr EXCEPT
            !.CompressionRatio =
                ((cr.OriginalSize - cr.CompressedSize) * 100) \div cr.OriginalSize,
            !.SavedSpace = cr.OriginalSize - cr.CompressedSize]
    ELSE cr

\* The literal a worker publishes on a per-file failure.
FailedResult(f, size, err) ==
    [NoResult EXCEPT !.CurrentFile = f, !.OriginalSize = size, !.Error = err]

\* What a successful Compress call returns (both compressors of the
\* repository build the same literal and return it with a nil error).
CompressOk(size, csize) ==
    CalculateCompressionRatio(
        [NoResult EXCEPT !.OriginalSize = size, !.CompressedSize = csize,
                         !.Success = TRUE])

\* A variant that is effective whenever the ratio is not negative.
IsEffectiveOrUnchanged(cr) == cr.Success /\ cr.CompressionRatio >= 0

IsEffective(cr) == cr.Success /\ cr.CompressionRatio > 0

\* -------------------------------------------------------- CompressionConfig
\* A variant whose tiers end one level early: 20, 40, 60 and 80 fall into
\* the next tier.
NewCompressionConfigTiersShifted(level) ==
    LET l == IF level < 10 THEN 10 ELSE IF level > 90 THEN 90 ELSE level
    IN  [Level |-> l,
         ImageQuality |->
            IF l < 20 THEN 90 ELSE IF l < 40 THEN 75 ELSE
            IF l < 60 THEN 60 ELSE IF l < 80 THEN 40 ELSE 25,
         RemoveMetadata    |-> l >= 20,
         RemoveAnnotations |-> l >= 40,
         RemoveAttachments |-> l >= 60]

NewCompressionConfigWithLicense(level) ==
    LET l == IF level < 10 THEN 10 ELSE IF level > 90 THEN 90 ELSE level
    IN  [Level |-> l,
         ImageQuality |->
            IF l <= 20 THEN 90 ELSE IF l <= 40 THEN 75 ELSE
            IF l <= 60 THEN 60 ELSE IF l <= 80 THEN 40 ELSE 25,
         RemoveMetadata    |-> l > 20,
         RemoveAnnotations |-> l > 40,
         RemoveAttachments |-> l > 60]

\* NewCompressionConfigWithLicense(level, ""): the license key is no part
\* of the model.
NewCompressionConfig(level) == NewCompressionConfigWithLicense(level)

\* A variant that checks the level only.
ValidateLevelOnly(c) ==
    IF c.Level < 10 \/ c.Level > 90 THEN Err("ErrInvalidCompressionLevel", 0)
    ELSE Nil

Validate(c) ==
    IF c.Level < 10 \/ c.Level > 90 THEN Err("ErrInvalidCompressionLevel", 0)
    ELSE IF c.ImageQuality < 10 \/ c.ImageQuality > 100
         THEN Err("ErrInvalidImageQuality", 0)
    ELSE Nil

\* --------------------------------------------------------- ProcessingStatus
NewProcessingStatus(totalFiles) ==
    [Phase |-> "Initializing", TotalFiles |-> totalFiles,
     ProcessedFiles |-> 0, SuccessfulFiles |-> 0, FailedFiles |-> 0,
     TotalOriginalSize |-> 0, TotalCompressedSize |-> 0, TotalSavedSpace |-> 0,
     AverageCompression |-> 0, Progress |-> 0, EstimatedTime |-> 0,
     CurrentFile |-> 0, CurrentFileSize |-> 0, LastResult |-> NoResult,
     IsComplete |-> FALSE, Error |-> Nil]

\* EstimatedTime is a duration: 0, or 1 for "the extrapolated estimate".
UpdateProgress(ps) ==
    LET p == IF ps.TotalFiles > 0
             THEN [ps EXCEPT !.Progress = (ps.ProcessedFiles * 100) \div ps.TotalFiles]
             ELSE ps
    IN  IF p.ProcessedFiles > 0 /\ p.ProcessedFiles < p.TotalFiles
        THEN [p EXCEPT !.EstimatedTime = 1]
        ELSE p

\* A variant that counts a file as processed only when it succeeded.
AddResultSuccessOnly(ps, result) ==
    IF result.Success /\ result.Error = Nil
    THEN UpdateProgress([ps EXCEPT !.ProcessedFiles = @ + 1,
                                   !.SuccessfulFiles = @ + 1,
                                   !.LastResult = result])
    ELSE UpdateProgress([ps EXCEPT !.FailedFiles = @ + 1, !.LastResult = result])

\* A variant whose average is the running mean of the per-file ratios.
AddResultMeanOfRatios(ps, result) ==
    LET a == [ps EXCEPT !.ProcessedFiles = @ + 1, !.LastResult = result]
    IN  UpdateProgress(
            IF result.Success /\ result.Error = Nil
            THEN [a EXCEPT
                    !.SuccessfulFiles = @ + 1,
                    !.TotalOriginalSize = @ + result.OriginalSize,
                    !.TotalCompressedSize = @ + result.CompressedSize,
                    !.TotalSavedSpace = @ + result.SavedSpace,
                    !.AverageCompression =
                        (@ * ps.SuccessfulFiles + result.CompressionRatio)
                            \div (ps.SuccessfulFiles + 1)]
            ELSE [a EXCEPT !.FailedFiles = @ + 1])

AddResult(ps, result) ==
    LET a == [ps EXCEPT !.ProcessedFiles = @ + 1, !.LastResult = result]
        b == IF result.Success /\ result.Error = Nil
             THEN LET s == [a EXCEPT
                              !.SuccessfulFiles = @ + 1,
                              !.TotalOriginalSize = @ + result.OriginalSize,
                              !.TotalCompressedSize = @ + result.CompressedSize,
                              !.TotalSavedSpace = @ + result.SavedSpace]
                  IN  IF s.TotalOriginalSize > 0
                      THEN [s EXCEPT !.AverageCompression =
                              ((s.TotalOriginalSize - s.TotalCompressedSize) * 100)
                                  \div s.TotalOriginalSize]
                      ELSE s
             ELSE [a EXCEPT !.FailedFiles = @ + 1]
    IN  UpdateProgress(b)

\* The phases in the order of their declaration.
PhaseRank(phase) ==
    CASE phase = "Initializing" -> 0
      [] phase = "Scanning"     -> 1
      [] phase = "Compressing"  -> 2
      [] phase = "Replacing"    -> 3
      [] phase = "Completed"    -> 4
      [] phase = "Failed"       -> 5

\* A variant with the constants of the second and third phase exchanged.
SetPhaseExchanged(ps, phase) ==
    [ps EXCEPT !.Phase = IF phase = "Scanning" THEN "Compressing"
                         ELSE IF phase = "Compressing" THEN "Scanning"
                         ELSE phase]

SetPhase(ps, phase) == [ps EXCEPT !.Phase = phase]

SetCurrentFile(ps, f, size) == [ps EXCEPT !.CurrentFile = f, !.CurrentFileSize = size]

\* A variant that ends a run with failed files as a failed run.
CompleteOnSuccess(ps) ==
    IF ps.FailedFiles > 0
    THEN [ps EXCEPT !.IsComplete = TRUE, !.Phase = "Failed",
                    !.Error = Err("filesFailed", ps.FailedFiles)]
    ELSE [ps EXCEPT !.IsComplete = TRUE, !.Phase = "Completed", !.Progress = 100,
                    !.EstimatedTime = 0]

Complete(ps) ==
    [ps EXCEPT !.IsComplete = TRUE, !.Phase = "Completed", !.Progress = 100,
               !.EstimatedTime = 0]

Fail(ps, err) == [ps EXCEPT !.IsComplete = TRUE, !.Phase = "Failed", !.Error = err]

\* ------------------------------------------------------------- file system
\* Per input file: what is stored at originalPath, originalPath + ".backup"
\* and the output path (originalPath + ".tmp" in replace mode).
\* "old" is the pre-run content, "new" the compressor's output.
NoFile == "none"

Rename(entry, src, dst) == [entry EXCEPT ![dst] = entry[src], ![src] = NoFile]

Remove(entry, path) == [entry EXCEPT ![path] = NoFile]


\* A variant that deletes the original instead of moving it aside.
BackupStepDeletes(entry) == Remove(entry, "orig")

\* os.Rename(originalFile, backupFile)
BackupStep(entry) == Rename(entry, "orig", "backup")

\* os.Rename(tempFile, originalFile)
SwapStep(entry) == Rename(entry, "out", "orig")

\* A variant that "restores" from the temp file.
RollbackFromTemp(entry) == Rename(entry, "out", "orig")

\* os.Rename(backupFile, originalFile)
Rollback(entry) == Rename(entry, "backup", "orig")

\* A variant that leaves the backup in place.
CleanupStepSkipped(entry) == entry

\* os.Remove(backupFile)
CleanupStep(entry) == Remove(entry, "backup")

\* os.Remove(outputFile)

DiscardTemp(entry) == Remove(entry, "out")

\* GetFileInfo reports the size of the file at the input path.
FileSize(f) == OrigSize

\* The size of what the compressor writes for file f: larger than the
\* input for file 1, smaller for file 2, equal for file 3, and so on.
CompressedSize(f) ==
    IF f % 3 = 1 THEN OrigSize + 1 ELSE IF f % 3 = 2 THEN OrigSize - 1 ELSE OrigSize

\* ------------------------------------------------------------------ state
VARIABLES
    config,        \* the run configuration Execute was called with
    dir,           \* how many PDF files the source directory holds
    epc,           \* where the goroutine running Execute is
    ret,           \* what Execute returned: "none" (running), "nil", "err"
    status,        \* the ProcessingStatus of the run
    snapshot,      \* the copy last handed to the progress reporter
    reports,       \* number of snapshots handed to the progress reporter
    delivered,     \* the snapshots the progress reporter holds, in the
                   \* order reportProgress handed them over
    cancelled,     \* whether ApplicationProcessor.Shutdown has cancelled ctx
    unit,          \* the entity function last applied on its own, with its
                   \* input and its result
    files,         \* len(files): how many paths ListPDFFiles returned
    sent,          \* how many of them the producer loop has enqueued
    jobs,          \* buffer of the jobs channel
    jobsClosed,
    results,       \* buffer of the results channel
    resultsClosed,
    wg,            \* counter of the WaitGroup
    closer,        \* the goroutine of wg.Wait(); close(results)
    wpc,           \* where each worker goroutine is
    wfile,         \* inputFile of each worker
    wattempt,      \* attempt of each worker's retry loop
    wresult,       \* result of each worker
    fs,            \* the file system, per input file
    panic,         \* "none", or the run-time panic that ended the process
    taken,         \* history: per file, how often it was dequeued
    published,     \* history: per file, how many Outcomes were sent for it
    calls,         \* history: per file, the Compress calls in order
                   \* (TRUE = returned a nil error)
    replaceLog,    \* history: per file, the renames and removes made by
                   \* replaceOriginalFile in order (TRUE = nil error)
    atReturn,      \* history: per file, the file system entry at the moment
                   \* replaceOriginalFile returned
    discards,      \* history: per file, the os.Remove(outputFile) calls of
                   \* the worker in order (TRUE = nil error)
    sleeps,        \* history: per file, the time.Sleep calls of the retry
                   \* loop in order
    goroutines,    \* where each launched StartProcessing goroutine is
    pwg,           \* the counter of ApplicationProcessor.wg
    shutdown,      \* where main's deferred Shutdown is
    logChan,       \* Manager.logChan: the log lines sent and not yet received
    logDone,       \* whether Manager.logDone is closed
    logMutex,      \* the Cleanup call holding Manager.logMutex, 0 for none
    logBuffer,     \* Manager.logBuffer
    batch,         \* the batch of the log processor
    lpc,           \* where the log processor goroutine is
    cpc,           \* where each call of Manager.Cleanup is
    closes,        \* history: number of close(m.logDone) executed
    added,         \* history: number of AddLog calls; the n-th logs line n
    accepted,      \* history: the lines AddLog sent to logChan, in order
    appended,      \* history: the lines ever appended to logBuffer, in order
    lastAdd        \* history: the last AddLog call and what it met

vars == <<config, dir, cancelled, unit, epc, ret, status, snapshot, reports,
          delivered, files, sent, jobs,
          jobsClosed, results, resultsClosed, wg, closer, wpc, wfile,
          wattempt, wresult, fs, panic, taken, published, calls, replaceLog,
          atReturn, discards, sleeps, goroutines, pwg, shutdown, logChan,
          logDone, logMutex, logBuffer, batch, lpc, cpc, closes, added,
          accepted, appended, lastAdd>>

\* The goroutines of main: StartProcessing launches and Shutdown.
appVars    == <<goroutines, pwg, shutdown>>
\* The TUI manager's log: AddLog, the log processor and Cleanup.
logVars    == <<logChan, logDone, logMutex, logBuffer, batch, lpc, cpc, closes,
               added, accepted, appended, lastAdd>>
envVars    == <<config, dir, cancelled, unit, appVars, logVars>>
execVars   == <<epc, ret, status, snapshot, reports, delivered, files, sent>>
chanVars   == <<jobs, jobsClosed, results, resultsClosed, wg, closer>>
workerVars == <<wpc, wfile, wattempt, wresult>>
histVars   == <<taken, published, calls, replaceLog, atReturn, discards,
               sleeps>>

\* The value of unit before any entity function was applied on its own.
NoCall == [fn |-> "none"]

FreshFile == [orig |-> "old", backup |-> NoFile, out |-> NoFile]

\* The value of atReturn for a file replaceOriginalFile has not returned for.
NoEntry == [orig |-> NoFile, backup |-> NoFile, out |-> NoFile]

Init ==
    /\ config \in [ReplaceOriginal : BOOLEAN, ParallelWorkers : WorkerCfgs,
                   RetryAttempts : RetryCfgs, Level : Levels]
    /\ dir \in 0..MaxFiles
    /\ epc = "begin"
    /\ ret = "none"
    /\ status = NewProcessingStatus(0)
    /\ snapshot = NewProcessingStatus(0)
    /\ reports = 0
    /\ delivered = << >>
    /\ cancelled = FALSE
    /\ unit = NoCall
    /\ files = 0
    /\ sent = 0
    /\ jobs = << >>
    /\ jobsClosed = FALSE
    /\ results = << >>
    /\ resultsClosed = FALSE
    /\ wg = 0
    /\ closer = "off"
    /\ wpc = [w \in Workers |-> "off"]
    /\ wfile = [w \in Workers |-> 0]
    /\ wattempt = [w \in Workers |-> 0]
    /\ wresult = [w \in Workers |-> NoResult]
    /\ fs = [f \in Files |-> FreshFile]
    /\ panic = "none"
    /\ taken = [f \in Files |-> 0]
    /\ published = [f \in Files |-> 0]
    /\ calls = [f \in Files |-> << >>]
    /\ replaceLog = [f \in Files |-> << >>]
    /\ atReturn = [f \in Files |-> NoEntry]
    /\ discards = [f \in Files |-> << >>]
    /\ sleeps = [f \in Files |-> << >>]
    /\ goroutines = [g \in Launches |-> "none"]
    /\ pwg = 0
    /\ shutdown = "idle"
    /\ logChan = << >>
    /\ logDone = FALSE
    /\ logMutex = 0
    /\ logBuffer = << >>
    /\ batch = << >>
    /\ lpc = "select"
    /\ cpc = [c \in Cleanups |-> "idle"]
    /\ closes = 0
    /\ added = 0
    /\ accepted = << >>
    /\ appended = << >>
    /\ lastAdd = [line |-> 0, pending |-> 0, queued |-> FALSE]

\* ------------------------------------------------------------ reportProgress
\* A variant that hands the reporter the status itself instead of a copy:
\* every snapshot it holds then shows the current status.
DeliverByReference(log, ps) == [i \in 1..(Len(log) + 1) |-> ps]

\* uc.progressReporter(*status): the reporter receives a copy of the status.
Deliver(log, ps) == Append(log, ps)

\* An unrecovered panic in any goroutine ends the process: every step of
\* every goroutine needs the process to be running.
Running == panic = "none"

\* ---------------------------------------------------------------- Execute
\* status is changed to ps and handed to the progress reporter.
Report(ps) ==
    /\ status' = ps
    /\ snapshot' = ps
    /\ reports' = reports + 1
    /\ delivered' = Deliver(delivered, ps)

\* A variant that returns without handing the failed status to the reporter.
AbortUnreported(err) ==
    /\ status' = Fail(status, err)
    /\ UNCHANGED <<snapshot, reports, delivered>>
    /\ epc' = "returned"
    /\ ret' = "err"

\* status.Fail(err); reportProgress; return err
Abort(err) ==
    /\ Report(Fail(status, err))
    /\ epc' = "returned"
    /\ ret' = "err"

ExecBegin ==
    /\ Running
    /\ epc = "begin"
    /\ Report(SetPhase(NewProcessingStatus(0), "Initializing"))
    /\ epc' = "checkSource"
    /\ UNCHANGED <<envVars, ret, files, sent, chanVars, workerVars, fs, panic, histVars>>

ExecCheckSource ==
    /\ Running
    /\ epc = "checkSource"
    /\ \E exists \in BOOLEAN :
          IF ~exists
          THEN Abort(Err("sourceMissing", 0))
          ELSE /\ epc' = "createTarget"
               /\ UNCHANGED <<ret, status, snapshot, reports, delivered>>
    /\ UNCHANGED <<envVars, files, sent, chanVars, workerVars, fs, panic, histVars>>

ExecCreateTarget ==
    /\ Running
    /\ epc = "createTarget"
    /\ \E created \in BOOLEAN :
          IF ~config.ReplaceOriginal /\ ~created
          THEN Abort(Err("createTarget", 0))
          ELSE /\ Report(SetPhase(status, "Scanning"))
               /\ epc' = "scan"
               /\ ret' = ret
    /\ UNCHANGED <<envVars, files, sent, chanVars, workerVars, fs, panic, histVars>>

\* What Execute does when ListPDFFiles returned an empty list.
OnNoFiles ==
    /\ Report(Complete(status))
    /\ epc' = "returned"
    /\ ret' = "nil"

ExecScan ==
    /\ Running
    /\ epc = "scan"
    /\ \E listed \in BOOLEAN :
          IF ~listed
          THEN Abort(Err("list", 0)) /\ files' = files
          ELSE IF dir = 0
          THEN OnNoFiles /\ files' = files
          ELSE LET counted == [status EXCEPT !.TotalFiles = dir]
                   verdict == Validate(NewCompressionConfigWithLicense(config.Level))
               IN  /\ files' = dir
                   /\ IF verdict # Nil
                      THEN /\ Report(Fail(counted, verdict))
                           /\ epc' = "returned"
                           /\ ret' = "err"
                      ELSE /\ Report(SetPhase(counted, "Compressing"))
                           /\ epc' = "startWorkers"
                           /\ ret' = ret
    /\ UNCHANGED <<envVars, sent, chanVars, workerVars, fs, panic, histVars>>

\* A variant without the clamp.
NumWorkersUnclamped(parallelWorkers) == parallelWorkers

\* workers := config.Processing.ParallelWorkers; if workers <= 0 { workers = 1 }
NumWorkers(parallelWorkers) == IF parallelWorkers <= 0 THEN 1 ELSE parallelWorkers

ExecStartWorkers ==
    /\ Running
    /\ epc = "startWorkers"
    /\ wg' = NumWorkers(config.ParallelWorkers)
    /\ wpc' = [w \in Workers |->
                 IF w <= NumWorkers(config.ParallelWorkers) THEN "recv" ELSE "off"]
    /\ epc' = "produce"
    /\ UNCHANGED <<envVars, ret, status, snapshot, reports, delivered, files, sent, jobs,
                   jobsClosed, results, resultsClosed, closer, wfile, wattempt,
                   wresult, fs, panic, histVars>>

\* A variant that sends every file twice.
EnqueueTwice(queue, file) == Append(Append(queue, file), file)

\* for _, file := range files { jobs <- file }: one send per listed file
Enqueue(queue, file) == Append(queue, file)

\* jobs <- file, on a channel of capacity len(files)
ExecSendJob ==
    /\ Running
    /\ epc = "produce"
    /\ sent < files
    /\ Len(jobs) < files
    /\ jobs' = Enqueue(jobs, sent + 1)
    /\ sent' = sent + 1
    /\ UNCHANGED <<envVars, epc, ret, status, snapshot, reports, delivered, files, jobsClosed,
                   results, resultsClosed, wg, closer, workerVars, fs, panic,
                   histVars>>

\* close(jobs); go func() { wg.Wait(); close(results) }()
ExecCloseJobs ==
    /\ Running
    /\ epc = "produce"
    /\ sent = files
    /\ jobsClosed' = TRUE
    /\ closer' = "waiting"
    /\ epc' = "collect"
    /\ UNCHANGED <<envVars, ret, status, snapshot, reports, delivered, files, sent, jobs,
                   results, resultsClosed, wg, workerVars, fs, panic, histVars>>

\* A variant that closes the results channel without waiting.
WgWaitSkipped(counter) == TRUE

\* wg.Wait() returns when the counter is zero.
WgWait(counter) == counter = 0

Closer ==
    /\ Running
    /\ closer = "waiting"
    /\ WgWait(wg)
    /\ resultsClosed' = TRUE
    /\ closer' = "done"
    /\ UNCHANGED <<envVars, execVars, jobs, jobsClosed, results, wg, workerVars,
                   fs, panic, histVars>>

\* one iteration of: for result := range results
ExecCollect ==
    /\ Running
    /\ epc = "collect"
    /\ results # << >>
    /\ LET result == Head(results)
       IN  Report(SetCurrentFile(AddResult(status, result),
                                 result.CurrentFile, result.OriginalSize))
    /\ results' = Tail(results)
    /\ UNCHANGED <<envVars, epc, ret, files, sent, jobs, jobsClosed, resultsClosed,
                   wg, closer, workerVars, fs, panic, histVars>>

\* the range loop ends on the closed, drained channel; status.Complete()
ExecFinish ==
    /\ Running
    /\ epc = "collect"
    /\ results = << >>
    /\ resultsClosed
    /\ Report(Complete(status))
    /\ epc' = "summary"
    /\ UNCHANGED <<envVars, ret, files, sent, chanVars, workerVars, fs, panic, histVars>>

\* A variant whose summary clears the current file of the status.
SummaryClearsCurrentFile(ps) == SetCurrentFile(ps, 0, 0)

\* The closing log lines read the elapsed time, the counters and the totals
\* of the status and write none of its fields.
Summary(ps) == ps

\* the summary of the run is logged; return nil
ExecSummary ==
    /\ Running
    /\ epc = "summary"
    /\ status' = Summary(status)
    /\ epc' = "returned"
    /\ ret' = "nil"
    /\ UNCHANGED <<envVars, snapshot, reports, delivered, files, sent, chanVars,
                   workerVars, fs, panic, histVars>>


\* ----------------------------------------------------------------- worker
\* A variant with the loop bound off by one.
LoopContinuesOffByOne(attempt, retryAttempts) == attempt <= retryAttempts

\* for attempt := 0; attempt < config.Processing.RetryAttempts; attempt++
LoopContinues(attempt, retryAttempts) == attempt < retryAttempts

\* results <- r for each r of rs, by the worker that holds file f.  A send
\* on a closed channel panics; a send on a full channel waits.
Publish(f, rs) ==
    IF rs # << >> /\ resultsClosed
    THEN /\ panic' = "send on closed channel"
         /\ UNCHANGED <<results, published>>
    ELSE /\ Len(results) + Len(rs) <= files
         /\ results' = results \o rs
         /\ published' = [published EXCEPT ![f] = @ + Len(rs)]
         /\ panic' = panic

\* The worker goes back to the head of: for inputFile := range jobs
NextJob(w) ==
    /\ wpc' = [wpc EXCEPT ![w] = "recv"]
    /\ wfile' = [wfile EXCEPT ![w] = 0]
    /\ wattempt' = [wattempt EXCEPT ![w] = 0]
    /\ wresult' = [wresult EXCEPT ![w] = NoResult]

\* A variant whose worker records the file it took in the status of the run.
WorkerSetsCurrentFile(ps, f) == SetCurrentFile(ps, f, 0)

\* The worker is handed the pointer to the status of the run and uses it in
\* no statement of its body.
WorkerStatus(ps, f) == ps

\* A variant without the continue: the failure is published and the
\* iteration goes on to publish again.
OnMkdirErrorTwice(f) ==
    << FailedResult(f, 0, Err("mkdir", 0)), FailedResult(f, 0, Err("fileInfo", 0)) >>

\* What the worker publishes when MkdirAll fails.
OnMkdirError(f) == << FailedResult(f, 0, Err("mkdir", 0)) >>

\* A variant that skips the file without publishing.
OnFileInfoErrorDropped(f) == << >>

\* What the worker publishes when GetFileInfo fails.
OnFileInfoError(f) == << FailedResult(f, 0, Err("fileInfo", 0)) >>

\* What the worker publishes when the retry loop ended with an error.
OnCompressError(f, err) == << FailedResult(f, FileSize(f), err) >>

\* A variant that records the error but leaves Success as it was.
OnReplaceErrorKeepsSuccess(result, err) == [result EXCEPT !.Error = err]

\* result.Success = false; result.Error = ... after a failed replacement
OnReplaceError(result, err) == [result EXCEPT !.Success = FALSE, !.Error = err]

\* Dequeue a job, resolve the output path, read the file info, enter the
\* retry loop.  Outside replace mode the output directory is created
\* unless filepath.Rel failed; mkdirOk also stands for that case, in which
\* no directory is made and nothing can fail.
\* With no iteration of the loop, err is still the nil of
\* GetFileInfo and result is nil, and result.CurrentFile = ... panics.
WDequeue(w) ==
    /\ Running
    /\ wpc[w] = "recv"
    /\ jobs # << >>
    /\ LET f == Head(jobs)
       IN  /\ jobs' = Tail(jobs)
           /\ taken' = [taken EXCEPT ![f] = @ + 1]
           /\ status' = WorkerStatus(status, f)
           /\ \E mkdirOk \in BOOLEAN, infoOk \in BOOLEAN :
                 IF ~config.ReplaceOriginal /\ ~mkdirOk
                 THEN Publish(f, OnMkdirError(f)) /\ NextJob(w)
                 ELSE IF ~infoOk
                 THEN Publish(f, OnFileInfoError(f)) /\ NextJob(w)
                 ELSE IF LoopContinues(0, config.RetryAttempts)
                 THEN /\ wpc' = [wpc EXCEPT ![w] = "compress"]
                      /\ wfile' = [wfile EXCEPT ![w] = f]
                      /\ wattempt' = [wattempt EXCEPT ![w] = 0]
                      /\ UNCHANGED <<wresult, results, published, panic>>
                 ELSE /\ panic' = "nil pointer dereference"
                      /\ UNCHANGED <<workerVars, results, published>>
    /\ UNCHANGED <<envVars, epc, ret, snapshot, reports, delivered, files, sent,
                   jobsClosed, resultsClosed, wg, closer, fs, calls, replaceLog,
                   atReturn, discards, sleeps>>

\* The pause of the retry loop, in seconds.
RetryDelay == 2

\* A variant that pauses after every failed attempt, the last one included.
SleepAfterEveryFailure(attempt, retryAttempts) ==
    << [after |-> attempt + 1, delay |-> RetryDelay] >>

\* if attempt < config.Processing.RetryAttempts-1 { time.Sleep(2 s) }, in
\* the iteration whose Compress call failed.
SleepAfterFailure(attempt, retryAttempts) ==
    IF attempt < retryAttempts - 1
    THEN << [after |-> attempt + 1, delay |-> RetryDelay] >>
    ELSE << >>

\* One iteration of the retry loop: one Compress call.  A nil error leaves
\* the loop; in replace mode the worker goes on to replaceOriginalFile.
WCompress(w) ==
    /\ Running
    /\ wpc[w] = "compress"
    /\ LET f == wfile[w]
       IN  \E ok \in BOOLEAN :
             /\ calls' = [calls EXCEPT ![f] = Append(@, ok)]
             /\ sleeps' = [sleeps EXCEPT ![f] =
                              IF ok THEN @
                              ELSE @ \o SleepAfterFailure(wattempt[w],
                                                          config.RetryAttempts)]
             /\ IF ok
                THEN LET result == CalculateCompressionRatio(
                                     [CompressOk(FileSize(f), CompressedSize(f)) EXCEPT
                                        !.CurrentFile = f,
                                        !.OriginalSize = FileSize(f)])
                     IN  /\ fs' = [fs EXCEPT ![f].out = "new"]
                         /\ IF config.ReplaceOriginal
                            THEN /\ wpc' = [wpc EXCEPT ![w] = "backup"]
                                 /\ wresult' = [wresult EXCEPT ![w] = result]
                                 /\ UNCHANGED <<wfile, wattempt, results,
                                                published, panic>>
                            ELSE Publish(f, << result >>) /\ NextJob(w)
                ELSE /\ fs' = fs
                     /\ IF LoopContinues(wattempt[w] + 1, config.RetryAttempts)
                        THEN /\ wattempt' = [wattempt EXCEPT ![w] = @ + 1]
                             /\ UNCHANGED <<wpc, wfile, wresult, results,
                                            published, panic>>
                        ELSE /\ Publish(f, OnCompressError(
                                             f, Err("compress", wattempt[w] + 1)))
                             /\ NextJob(w)
    /\ UNCHANGED <<envVars, execVars, jobs, jobsClosed, resultsClosed, wg, closer,
                   taken, replaceLog, atReturn, discards>>

\* replaceOriginalFile returned err with the file system entry of f at
\* entry: the worker marks the result failed, removes the temp file
\* (ignoring the error of os.Remove) and publishes the result.
ReplaceFailed(w, f, entry, err) ==
    /\ atReturn' = [atReturn EXCEPT ![f] = entry]
    /\ \E removed \in BOOLEAN :
          /\ fs' = [fs EXCEPT ![f] = IF removed THEN DiscardTemp(entry) ELSE entry]
          /\ discards' = [discards EXCEPT ![f] = Append(@, removed)]
    /\ Publish(f, << OnReplaceError(wresult[w], err) >>)
    /\ NextJob(w)

\* A variant that removes the temp file itself before returning the error.
OnBackupErrorDiscards(entry) == DiscardTemp(entry)

\* What replaceOriginalFile does to the files when step 1 failed: nothing,
\* it returns the error at once.
OnBackupError(entry) == entry

\* replaceOriginalFile up to and including step 1: the os.Stat of the temp
\* file and the rename of the original to the backup.
WReplaceBackup(w) ==
    /\ Running
    /\ wpc[w] = "backup"
    /\ LET f == wfile[w]
       IN  IF fs[f].out = NoFile
           THEN /\ ReplaceFailed(w, f, fs[f], Err("replace", 0))
                /\ replaceLog' = replaceLog
           ELSE \E ok \in BOOLEAN :
                  IF ok /\ fs[f].orig # NoFile
                  THEN /\ fs' = [fs EXCEPT ![f] = BackupStep(@)]
                       /\ replaceLog' = [replaceLog EXCEPT ![f] = Append(@, TRUE)]
                       /\ wpc' = [wpc EXCEPT ![w] = "swap"]
                       /\ UNCHANGED <<wfile, wattempt, wresult, results,
                                      published, panic, atReturn, discards>>
                  ELSE /\ ReplaceFailed(w, f, OnBackupError(fs[f]), Err("replace", 1))
                       /\ replaceLog' = [replaceLog EXCEPT ![f] = Append(@, FALSE)]
    /\ UNCHANGED <<envVars, execVars, jobs, jobsClosed, resultsClosed, wg, closer,
                   taken, calls, sleeps>>

\* Step 2: the rename of the temp file to the original path and, when it
\* fails, the rollback rename, whose error is discarded.
WReplaceSwap(w) ==
    /\ Running
    /\ wpc[w] = "swap"
    /\ LET f == wfile[w]
       IN  \E ok \in BOOLEAN, restored \in BOOLEAN :
             IF ok
             THEN /\ fs' = [fs EXCEPT ![f] = SwapStep(@)]
                  /\ replaceLog' = [replaceLog EXCEPT ![f] = Append(@, TRUE)]
                  /\ wpc' = [wpc EXCEPT ![w] = "cleanup"]
                  /\ UNCHANGED <<wfile, wattempt, wresult, results, published,
                                 panic, atReturn, discards>>
             ELSE /\ ReplaceFailed(w, f,
                                   IF restored THEN Rollback(fs[f]) ELSE fs[f],
                                   Err("replace", 2))
                  /\ replaceLog' = [replaceLog EXCEPT ![f] = @ \o <<FALSE, restored>>]
    /\ UNCHANGED <<envVars, execVars, jobs, jobsClosed, resultsClosed, wg, closer,
                   taken, calls, sleeps>>

\* A variant that returns the error of os.Remove(backupFile).
OnCleanupErrorReturned == Err("replace", 3)

\* What replaceOriginalFile returns when step 3 failed: the failure is
\* logged as a warning and the function goes on to return nil.
OnCleanupError == Nil

\* Step 3: the removal of the backup; replaceOriginalFile returns and the
\* worker publishes the result.
WReplaceCleanup(w) ==
    /\ Running
    /\ wpc[w] = "cleanup"
    /\ LET f == wfile[w]
       IN  \E ok \in BOOLEAN :
             LET entry == IF ok THEN CleanupStep(fs[f]) ELSE fs[f]
                 err   == IF ok THEN Nil ELSE OnCleanupError
             IN  /\ replaceLog' = [replaceLog EXCEPT ![f] = Append(@, ok)]
                 /\ IF err = Nil
                    THEN /\ fs' = [fs EXCEPT ![f] = entry]
                         /\ atReturn' = [atReturn EXCEPT ![f] = entry]
                         /\ discards' = discards
                         /\ Publish(f, << [wresult[w] EXCEPT !.CurrentFile = f] >>)
                         /\ NextJob(w)
                    ELSE ReplaceFailed(w, f, entry, err)
    /\ UNCHANGED <<envVars, execVars, jobs, jobsClosed, resultsClosed, wg, closer,
                   taken, calls, sleeps>>

\* range jobs ends on the closed, drained channel; defer wg.Done()
WExit(w) ==
    /\ Running
    /\ wpc[w] = "recv"
    /\ jobs = << >>
    /\ jobsClosed
    /\ wpc' = [wpc EXCEPT ![w] = "done"]
    /\ wg' = wg - 1
    /\ UNCHANGED <<envVars, execVars, jobs, jobsClosed, results, resultsClosed,
                   closer, wfile, wattempt, wresult, fs, panic, histVars>>

\* ---------------------------------------------------- FileSystemRepository
\* Strings are sequences of ASCII codes, compared byte by byte as Go
\* compares strings.
Str(s) ==
    CASE s = "r"     -> <<114>>
      [] s = "a"     -> <<97>>
      [] s = "a-"    -> <<97, 45>>
      [] s = "b"     -> <<98>>
      [] s = "d.pdf" -> <<100, 46, 112, 100, 102>>
      [] s = "x.pdf" -> <<120, 46, 112, 100, 102>>
      [] s = "y.PDF" -> <<121, 46, 80, 68, 70>>
      [] s = "w.Pdf" -> <<119, 46, 80, 100, 102>>
      [] s = "z.txt" -> <<122, 46, 116, 120, 116>>
      [] s = ".pdf"  -> <<46, 112, 100, 102>>
      [] s = "pdf"   -> <<112, 100, 102>>

\* s < t for strings
RECURSIVE StrLess(_, _)
StrLess(s, t) ==
    IF t = << >> THEN FALSE
    ELSE IF s = << >> THEN TRUE
    ELSE IF Head(s) # Head(t) THEN Head(s) < Head(t)
    ELSE StrLess(Tail(s), Tail(t))

\* filepath.Join(elem, name) for clean, non-empty arguments
Join(elem, name) == elem \o <<47>> \o name

\* filepath.Ext(name): the suffix from the last dot on, empty without a dot
RECURSIVE Ext(_)
Ext(name) ==
    IF name = << >> THEN << >>
    ELSE LET rest == Ext(Tail(name))
         IN  IF rest # << >> THEN rest
             ELSE IF Head(name) = 46 THEN name ELSE << >>

ToLower(c) == IF c \in 65..90 THEN c + 32 ELSE c

\* strings.EqualFold on ASCII strings
EqualFold(s, t) ==
    /\ Len(s) = Len(t)
    /\ \A i \in 1..Len(s) : ToLower(s[i]) = ToLower(t[i])

\* The entries a directory tree may hold under the root "r": the directory
\* of each, its name, whether it is a directory, and whether it is a PDF
\* file by its name.
Universe ==
    { [dir |-> Str("r"), name |-> Str("a"), isDir |-> TRUE, pdf |-> FALSE],
      [dir |-> Str("r"), name |-> Str("a-"), isDir |-> TRUE, pdf |-> FALSE],
      [dir |-> Str("r"), name |-> Str("d.pdf"), isDir |-> TRUE, pdf |-> FALSE],
      [dir |-> Str("r"), name |-> Str("x.pdf"), isDir |-> FALSE, pdf |-> TRUE],
      [dir |-> Join(Str("r"), Str("a")), name |-> Str("b"),
       isDir |-> TRUE, pdf |-> FALSE],
      [dir |-> Join(Str("r"), Str("a")), name |-> Str("x.pdf"),
       isDir |-> FALSE, pdf |-> TRUE],
      [dir |-> Join(Str("r"), Str("a")), name |-> Str("y.PDF"),
       isDir |-> FALSE, pdf |-> TRUE],
      [dir |-> Join(Join(Str("r"), Str("a")), Str("b")), name |-> Str("w.Pdf"),
       isDir |-> FALSE, pdf |-> TRUE],
      [dir |-> Join(Str("r"), Str("a-")), name |-> Str("x.pdf"),
       isDir |-> FALSE, pdf |-> TRUE],
      [dir |-> Join(Str("r"), Str("d.pdf")), name |-> Str("z.txt"),
       isDir |-> FALSE, pdf |-> FALSE],
      [dir |-> Join(Str("r"), Str("d.pdf")), name |-> Str("pdf"),
       isDir |-> FALSE, pdf |-> FALSE] }

PathOf(e) == Join(e.dir, e.name)

\* A tree gives each entry of Universe a state: "absent", "ok", or, for a
\* directory, "unreadable" (ReadDir on it fails); rootOk tells whether
\* Lstat of the root succeeds.
Trees ==
    { t \in [rootOk : BOOLEAN,
             state : [Universe -> {"absent", "ok", "unreadable"}]] :
        \A e \in Universe : t.state[e] = "unreadable" => e.isDir }

\* The entries ReadDir returns for a directory, sorted by filename.
RECURSIVE SortedByName(_)
SortedByName(S) ==
    IF S = {} THEN << >>
    ELSE LET first == CHOOSE e \in S :
                          \A o \in S \ {e} : StrLess(e.name, o.name)
         IN  <<first>> \o SortedByName(S \ {first})

ReadDir(t, path) ==
    SortedByName({e \in Universe : e.dir = path /\ t.state[e] # "absent"})

\* A variant of the callback that does not look at d.IsDir().
WalkFuncAnyEntry(pdfFiles, path, d, failed) ==
    IF failed THEN pdfFiles
    ELSE IF EqualFold(Ext(d.name), Str(".pdf")) THEN Append(pdfFiles, path)
    ELSE pdfFiles

\* The function ListPDFFiles passes to WalkDir; failed stands for err != nil.
WalkFunc(pdfFiles, path, d, failed) ==
    IF failed THEN pdfFiles
    ELSE IF d.isDir THEN pdfFiles
    ELSE IF EqualFold(Ext(d.name), Str(".pdf")) THEN Append(pdfFiles, path)
    ELSE pdfFiles

\* filepath.WalkDir below one entry: the function is called for the entry,
\* then, for a directory, once more with the error when ReadDir failed,
\* else the entries of the directory are walked in the order of their
\* names.
RECURSIVE WalkEntry(_, _, _)
RECURSIVE WalkEntries(_, _, _)
WalkEntry(t, pdfFiles, e) ==
    LET seen == WalkFunc(pdfFiles, PathOf(e), e, FALSE)
    IN  IF ~e.isDir THEN seen
        ELSE IF t.state[e] = "unreadable"
        THEN WalkFunc(seen, PathOf(e), e, TRUE)
        ELSE WalkEntries(t, seen, ReadDir(t, PathOf(e)))

WalkEntries(t, pdfFiles, es) ==
    IF es = << >> THEN pdfFiles
    ELSE WalkEntries(t, WalkEntry(t, pdfFiles, Head(es)), Tail(es))

\* The DirEntry of the root directory.
RootEntry == [dir |-> << >>, name |-> Str("r"), isDir |-> TRUE, pdf |-> FALSE]

WalkDir(t) ==
    IF ~t.rootOk THEN WalkFunc(<< >>, Str("r"), RootEntry, TRUE)
    ELSE WalkEntries(t, WalkFunc(<< >>, Str("r"), RootEntry, FALSE),
                     ReadDir(t, Str("r")))

\* sort.Strings
RECURSIVE SortStrings(_)
SortStrings(list) ==
    IF list = << >> THEN << >>
    ELSE LET i == CHOOSE i \in 1..Len(list) :
                      \A j \in 1..Len(list) : ~StrLess(list[j], list[i])
         IN  <<list[i]>> \o
             SortStrings(SubSeq(list, 1, i - 1) \o SubSeq(list, i + 1, Len(list)))

\* A variant that returns the paths in the order WalkDir met them.
ListPDFFilesUnsorted(t) == [files |-> WalkDir(t), err |-> Nil]

\* The function never returns an error, so WalkDir returns nil.
ListPDFFiles(t) == [files |-> SortStrings(WalkDir(t)), err |-> Nil]

\* ------------------------------------------- entity functions on their own
poolVars == <<config, dir, cancelled, execVars, chanVars, workerVars, fs, panic,
              histVars, appVars, logVars>>

\* NewCompressionConfig(level), and Validate of what it returned.
UNewCompressionConfig ==
    /\ unit = NoCall
    /\ \E level \in LevelInputs :
          LET c == NewCompressionConfig(level)
          IN  unit' = [fn |-> "NewCompressionConfig", level |-> level,
                       config |-> c, err |-> Validate(c)]
    /\ UNCHANGED poolVars

\* c.Validate() on a configuration with any level and any image quality;
\* the method assigns to no field of c.
UValidate ==
    /\ unit = NoCall
    /\ \E level \in LevelInputs, quality \in QualityInputs :
          LET c == [NewCompressionConfig(level) EXCEPT
                      !.Level = level, !.ImageQuality = quality]
          IN  unit' = [fn |-> "Validate", config |-> c, after |-> c,
                       err |-> Validate(c)]
    /\ UNCHANGED poolVars

\* cr.IsEffective() on a result with any ratio, flag and error.
UIsEffective ==
    /\ unit = NoCall
    /\ \E ratio \in RatioInputs, success \in BOOLEAN,
          err \in {Nil, Err("compress", 1)} :
          LET cr == [NoResult EXCEPT !.CompressionRatio = ratio,
                                    !.Success = success, !.Error = err]
          IN  unit' = [fn |-> "IsEffective", result |-> cr,
                       effective |-> IsEffective(cr)]
    /\ UNCHANGED poolVars

\* The results AddResult is applied to: any sizes, flag and error, with the
\* derived fields as CalculateCompressionRatio sets them.
ResultInputs ==
    {CalculateCompressionRatio(
         [NoResult EXCEPT !.CurrentFile = 1, !.OriginalSize = sizes[1],
                          !.CompressedSize = sizes[2], !.Success = success,
                          !.Error = err]) :
        sizes \in SizeInputs, success \in BOOLEAN,
        err \in {Nil, Err("compress", 1)}}

\* One more status.AddResult(result) on a status that started fresh.
UAddResult ==
    /\ unit.fn \in {"none", "AddResult"}
    /\ LET before == IF unit.fn = "none"
                     THEN [results |-> << >>,
                           status |-> NewProcessingStatus(MaxAdds)]
                     ELSE unit
       IN  /\ Len(before.results) < MaxAdds
           /\ \E result \in ResultInputs :
                 unit' = [fn |-> "AddResult",
                          results |-> Append(before.results, result),
                          status |-> AddResult(before.status, result)]
    /\ UNCHANGED poolVars

\* --------------------------------------------------- ProcessAllFilesUseCase
shouldProcessPDFs(c) == c.Algorithm # ""

shouldProcessImages(c) == c.EnableJPEG \/ c.EnablePNG

\* fmt.Errorf("...: %w", err)
Wrap(stage, err) == [kind |-> stage, n |-> 0, cause |-> err]

\* A variant that goes on to the image stage after a failed PDF stage and
\* returns the error of the PDF stage at the end.
ExecuteAllKeepsGoing(c, pdfErr, imageErr) ==
    LET pdf    == shouldProcessPDFs(c)
        images == shouldProcessImages(c)
        ran    == (IF pdf THEN <<"pdf">> ELSE << >>) \o
                  (IF images THEN <<"images">> ELSE << >>)
    IN  IF pdf /\ pdfErr # Nil THEN [ran |-> ran, err |-> Wrap("pdf", pdfErr)]
        ELSE IF images /\ imageErr # Nil
        THEN [ran |-> ran, err |-> Wrap("images", imageErr)]
        ELSE IF ran = << >> THEN [ran |-> ran, err |-> Err("nothingSelected", 0)]
        ELSE [ran |-> ran, err |-> Nil]

\* ProcessAllFilesUseCase.Execute, given what each stage returns when it
\* is run: the stages it ran, in order, and its return value.
ExecuteAll(c, pdfErr, imageErr) ==
    LET pdf == shouldProcessPDFs(c)
    IN  IF pdf /\ pdfErr # Nil
        THEN [ran |-> <<"pdf">>, err |-> Wrap("pdf", pdfErr)]
        ELSE LET processedPDFs == pdf
                 afterPDFs == IF pdf THEN <<"pdf">> ELSE << >>
             IN  IF shouldProcessImages(c)
                 THEN IF imageErr # Nil
                      THEN [ran |-> Append(afterPDFs, "images"),
                            err |-> Wrap("images", imageErr)]
                      ELSE [ran |-> Append(afterPDFs, "images"), err |-> Nil]
                 ELSE IF ~processedPDFs
                      THEN [ran |-> afterPDFs, err |-> Err("nothingSelected", 0)]
                      ELSE [ran |-> afterPDFs, err |-> Nil]

\* Execute on any selection of stages and any outcome of each stage
UExecuteAll ==
    /\ unit = NoCall
    /\ \E algorithm \in {"", "pdfcpu", "unipdf"}, jpeg \in BOOLEAN, png \in BOOLEAN,
          pdfErr \in {Nil, Err("list", 0)}, imageErr \in {Nil, Err("walk", 0)} :
          LET c == [Algorithm |-> algorithm, EnableJPEG |-> jpeg, EnablePNG |-> png]
          IN  unit' = [fn |-> "ExecuteAll", config |-> c, pdfErr |-> pdfErr,
                       imageErr |-> imageErr,
                       result |-> ExecuteAll(c, pdfErr, imageErr)]
    /\ UNCHANGED poolVars

\* ------------------------------------------------------ CompressImageUseCase
\* What the walk of ProcessImagesInDirectory meets: a JPEG or PNG file, a
\* file of another type, a directory, or a path the walk reports an error
\* for.  For an image, fail names the call that fails while it is
\* processed ("none": no call fails):
\*   "outputDir"  filepath.Rel or os.MkdirAll for the output path
\*   "open"       a call before the encoder writes: os.Open, Decode,
\*                inputFile.Stat, os.Create(tmpPath)
\*   "encode"     Encode, or os.Stat(tmpPath)
\*   "createOut"  os.Create(outputPath) of the fallback copy
\*   "copy"       io.Copy of the fallback copy
\*   "rename"     os.Rename(tmpPath, outputPath)
\* and effective tells whether the encoder's output is smaller than 95% of
\* the input.
ImageFails == {"none", "outputDir", "open", "encode", "createOut", "copy", "rename"}

ImageInputs ==
    [kind : {"jpeg", "png"}, fail : ImageFails, effective : BOOLEAN] \cup
    [kind : {"other", "dir", "unreadable"}, fail : {"none"}, effective : {TRUE}]

IsImageFile(d) == d.kind \in {"jpeg", "png"}

GetImageFormat(d) == IF d.kind \in {"jpeg", "png"} THEN d.kind ELSE ""

\* The files of one image: "in" at the input path, "out" at the output
\* path when that is another path, "tmp" at outputPath + ".tmp".  "old" is
\* the content of the image before the run, "new" what the encoder wrote,
\* "empty" a file of length 0, "partial" the start of a copy.
FreshImage == [in |-> "old", out |-> NoFile, tmp |-> NoFile]

\* What a read of the input file from its start yields, given the files.
ReadInput(entry) == entry.in

\* The fallback: inputFile.Seek(0, 0); os.Create(outputPath); io.Copy.
\* os.Create truncates the file at outputPath, which is the open input
\* file itself when the output path is the input path.
CopyOriginal(entry, outputPath, fail) ==
    IF fail = "createOut"
    THEN [entry |-> entry, err |-> Err("createOut", 0)]
    ELSE LET created == [entry EXCEPT ![outputPath] = "empty"]
         IN  IF fail = "copy"
             THEN [entry |-> [created EXCEPT ![outputPath] =
                                 IF ReadInput(created) = "empty"
                                 THEN "empty" ELSE "partial"],
                   err |-> Err("copy", 0)]
             ELSE [entry |-> [created EXCEPT ![outputPath] = ReadInput(created)],
                   err |-> Nil]

\* CompressJPEG and CompressPNG, which differ in how they scale and encode
\* and not in what they do with the files.
CompressFormat(entry, outputPath, d) ==
    IF d.fail = "open" THEN [entry |-> entry, err |-> Err("open", 0)]
    ELSE IF d.fail = "encode" THEN [entry |-> entry, err |-> Err("encode", 0)]
    ELSE LET encoded == [entry EXCEPT !.tmp = "new"]
         IN  IF ~d.effective
             THEN CopyOriginal(Remove(encoded, "tmp"), outputPath, d.fail)
             ELSE IF d.fail = "rename"
             THEN [entry |-> Remove(encoded, "tmp"), err |-> Err("rename", 0)]
             ELSE [entry |-> Rename(encoded, "tmp", outputPath), err |-> Nil]

\* CompressImage: the files afterwards, the error returned, and whether
\* the compressor was called.
CompressImage(entry, outputPath, d, c) ==
    LET format  == GetImageFormat(d)
        skipped == [entry |-> entry, err |-> Nil, called |-> FALSE]
    IN  IF format = ""
        THEN [entry |-> entry, err |-> Err("format", 0), called |-> FALSE]
        ELSE IF format = "jpeg" /\ ~c.EnableJPEG THEN skipped
        ELSE IF format = "png" /\ ~c.EnablePNG THEN skipped
        ELSE LET r == CompressFormat(entry, outputPath, d)
             IN  [entry |-> r.entry, err |-> r.err, called |-> TRUE]

NewProcessingResult ==
    [ProcessedFiles |-> << >>, FailedFiles |-> << >>, SuccessfulFiles |-> 0,
     TotalFiles |-> 0, entries |-> << >>, called |-> << >>]

\* A variant that counts an image only once its output path is settled.
WalkImageCountsLate(result, i, d, c, replaceOriginal) ==
    IF ~IsImageFile(d) \/ (~replaceOriginal /\ d.fail = "outputDir")
    THEN [result EXCEPT !.entries = Append(@, FreshImage),
                        !.called = Append(@, FALSE),
                        !.FailedFiles = IF IsImageFile(d) THEN Append(@, i) ELSE @]
    ELSE LET r == CompressImage(FreshImage,
                                IF replaceOriginal THEN "in" ELSE "out", d, c)
         IN  [result EXCEPT
                !.TotalFiles = @ + 1,
                !.entries = Append(@, r.entry),
                !.called = Append(@, r.called),
                !.FailedFiles = IF r.err # Nil THEN Append(@, i) ELSE @,
                !.ProcessedFiles = IF r.err = Nil THEN Append(@, i) ELSE @,
                !.SuccessfulFiles = IF r.err = Nil THEN @ + 1 ELSE @]

\* The function ProcessImagesInDirectory passes to filepath.Walk, applied
\* to the i-th path of the walk.  entries and called record, per path,
\* the files afterwards and whether the compressor was called.
WalkImage(result, i, d, c, replaceOriginal) ==
    LET untouched == [result EXCEPT !.entries = Append(@, FreshImage),
                                    !.called = Append(@, FALSE)]
    IN  IF d.kind = "unreadable" THEN untouched
        ELSE IF d.kind = "dir" THEN untouched
        ELSE IF ~IsImageFile(d) THEN untouched
        ELSE LET counted == [untouched EXCEPT !.TotalFiles = @ + 1]
             IN  IF ~replaceOriginal /\ d.fail = "outputDir"
                 THEN [counted EXCEPT !.FailedFiles = Append(@, i)]
                 ELSE LET r == CompressImage(
                                   FreshImage,
                                   IF replaceOriginal THEN "in" ELSE "out", d, c)
                      IN  IF r.err # Nil
                          THEN [result EXCEPT
                                  !.TotalFiles = @ + 1,
                                  !.entries = Append(@, r.entry),
                                  !.called = Append(@, r.called),
                                  !.FailedFiles = Append(@, i)]
                          ELSE [result EXCEPT
                                  !.TotalFiles = @ + 1,
                                  !.entries = Append(@, r.entry),
                                  !.called = Append(@, r.called),
                                  !.ProcessedFiles = Append(@, i),
                                  !.SuccessfulFiles = @ + 1]

RECURSIVE WalkImages(_, _, _, _)
WalkImages(ds, n, c, replaceOriginal) ==
    IF n = 0 THEN NewProcessingResult
    ELSE WalkImage(WalkImages(ds, n - 1, c, replaceOriginal), n, ds[n], c,
                   replaceOriginal)

\* ProcessImagesInDirectory over the paths ds: the walk's function
\* returns nil always, so filepath.Walk does.
ProcessImagesInDirectory(ds, c, replaceOriginal) ==
    IF ~c.EnableJPEG /\ ~c.EnablePNG
    THEN [result |-> NewProcessingResult, err |-> Nil]
    ELSE [result |-> WalkImages(ds, Len(ds), c, replaceOriginal), err |-> Nil]

\* ProcessImagesInDirectory on any directory of up to MaxImages paths
UProcessImages ==
    /\ unit = NoCall
    /\ \E n \in 0..MaxImages, jpeg \in BOOLEAN, png \in BOOLEAN,
          replaceOriginal \in BOOLEAN :
          \E ds \in [1..n -> ImageInputs] :
             LET c == [EnableJPEG |-> jpeg, EnablePNG |-> png]
             IN  unit' = [fn |-> "ProcessImagesInDirectory", paths |-> ds,
                          config |-> c, replaceOriginal |-> replaceOriginal,
                          returned |-> ProcessImagesInDirectory(
                                           ds, c, replaceOriginal)]
    /\ UNCHANGED poolVars

\* ListPDFFiles on any tree
UListPDFFiles ==
    /\ unit = NoCall
    /\ \E t \in Trees :
          unit' = [fn |-> "ListPDFFiles", tree |-> t, list |-> ListPDFFiles(t)]
    /\ UNCHANGED poolVars

\* ---------------------------------------------------- ApplicationProcessor
\* Shutdown: p.cancel() cancels the context made by NewApplicationProcessor.
\* main defers Shutdown, so it runs when the TUI has ended, whatever the
\* goroutine of StartProcessing is doing then.  The context is passed to
\* neither use case: no step of Execute or of a worker reads it.
Cancel ==
    /\ Running
    /\ ~cancelled
    /\ cancelled' = TRUE
    /\ UNCHANGED <<config, dir, unit, execVars, chanVars, workerVars, fs, panic,
                   histVars, appVars, logVars>>

\* What neither StartProcessing nor Shutdown changes in the steps below.
useCaseVars == <<config, dir, unit, execVars, chanVars, workerVars, fs, panic,
                 histVars, logVars>>

\* go processor.StartProcessing(): main does it for AutoStart, and the TUI
\* for every start of processing the user asks for, while the TUI runs.
\* The new goroutine has not executed anything yet.
GoStartProcessing(g) ==
    /\ shutdown = "idle"
    /\ goroutines[g] = "none"
    /\ \A h \in Launches : h < g => goroutines[h] # "none"
    /\ goroutines' = [goroutines EXCEPT ![g] = "go"]
    /\ UNCHANGED <<useCaseVars, cancelled, pwg, shutdown>>

\* StartProcessing, first statement: p.wg.Add(1); defer p.wg.Done().
StartProcessingAdd(g) ==
    /\ goroutines[g] = "go"
    /\ goroutines' = [goroutines EXCEPT ![g] = "running"]
    /\ pwg' = pwg + 1
    /\ UNCHANGED <<useCaseVars, cancelled, shutdown>>

\* StartProcessing, the rest: allFilesUseCase.Execute returns, with an
\* error or without, and the deferred p.wg.Done() runs.
StartProcessingReturn(g) ==
    /\ goroutines[g] = "running"
    /\ goroutines' = [goroutines EXCEPT ![g] = "returned"]
    /\ pwg' = pwg - 1
    /\ UNCHANGED <<useCaseVars, cancelled, shutdown>>

\* Shutdown, first statement: p.cancel().  main defers Shutdown, so it
\* starts once tuiManager.Run has returned.
ShutdownCancel ==
    /\ shutdown = "idle"
    /\ shutdown' = "wait"
    /\ cancelled' = TRUE
    /\ UNCHANGED <<useCaseVars, goroutines, pwg>>

\* Shutdown, second statement: p.wg.Wait() returns when the counter is 0.
ShutdownWait ==
    /\ shutdown = "wait"
    /\ pwg = 0
    /\ shutdown' = "returned"
    /\ UNCHANGED <<useCaseVars, cancelled, goroutines, pwg>>

\* ---------------------------------------------------------------- Manager
\* What the steps of the TUI manager's log leave alone.
nonLogVars == <<config, dir, cancelled, unit, execVars, chanVars, workerVars,
                fs, panic, histVars, appVars>>

\* A variant of the send that makes room by dropping the oldest pending
\* line when the channel is full.
SendDropOldest(ch, line) ==
    IF Len(ch) < LogChanCap THEN Append(ch, line) ELSE Append(Tail(ch), line)

\* select { case m.logChan <- logLine: default: }
Send(ch, line) ==
    IF Len(ch) < LogChanCap THEN Append(ch, line) ELSE ch

\* AddLog(level, message), called by any goroutine: format the line, send
\* it if the channel has room, return.
AddLog ==
    /\ added < MaxLines
    /\ added' = added + 1
    /\ logChan' = Send(logChan, added + 1)
    /\ accepted' = IF logChan' # logChan THEN Append(accepted, added + 1)
                   ELSE accepted
    /\ lastAdd' = [line |-> added + 1, pending |-> Len(logChan),
                   queued |-> logChan' # logChan]
    /\ UNCHANGED <<nonLogVars, logDone, logMutex, logBuffer, batch, lpc, cpc,
                   closes, appended>>

\* A variant of the flush that keeps the oldest lines of a full buffer.
flushLogBatchKeepsOldest(buffer, b) ==
    IF Len(buffer \o b) > MaxLogBufferSize
    THEN SubSeq(buffer \o b, 1, MaxLogBufferSize)
    ELSE buffer \o b

\* flushLogBatch: append the batch to logBuffer and cut logBuffer to its
\* last MaxLogBufferSize lines.  The hand-over of the text to the UI
\* (QueueUpdateDraw) that follows touches no field of the log.
flushLogBatch(buffer, b) ==
    LET all == buffer \o b
    IN  IF Len(all) > MaxLogBufferSize
        THEN SubSeq(all, Len(all) - MaxLogBufferSize + 1, Len(all))
        ELSE all

\* logProcessor, case logLine := <-m.logChan
LPReceive ==
    /\ lpc = "select"
    /\ logChan # << >>
    /\ logChan' = Tail(logChan)
    /\ LET b == Append(batch, Head(logChan))
       IN  IF Len(b) >= LogBatchSize
           THEN /\ logBuffer' = flushLogBatch(logBuffer, b)
                /\ appended' = appended \o b
                /\ batch' = << >>
           ELSE /\ batch' = b
                /\ UNCHANGED <<logBuffer, appended>>
    /\ UNCHANGED <<nonLogVars, logDone, logMutex, lpc, cpc, closes, added,
                   accepted, lastAdd>>

\* logProcessor, case <-ticker.C with a batch to flush (with an empty
\* batch the case does nothing)
LPTick ==
    /\ lpc = "select"
    /\ Len(batch) > 0
    /\ logBuffer' = flushLogBatch(logBuffer, batch)
    /\ appended' = appended \o batch
    /\ batch' = << >>
    /\ UNCHANGED <<nonLogVars, logChan, logDone, logMutex, lpc, cpc, closes,
                   added, accepted, lastAdd>>

\* logProcessor, case <-m.logDone: flush what the batch holds and return.
LPDone ==
    /\ lpc = "select"
    /\ logDone
    /\ logBuffer' = IF Len(batch) > 0 THEN flushLogBatch(logBuffer, batch)
                    ELSE logBuffer
    /\ appended' = appended \o batch
    /\ batch' = << >>
    /\ lpc' = "returned"
    /\ UNCHANGED <<nonLogVars, logChan, logDone, logMutex, cpc, closes, added,
                   accepted, lastAdd>>

\* A variant of Cleanup that does not wait for the mutex.
LockNotHeld(holder) == TRUE

\* m.logMutex.Lock() can return when no call holds the mutex.
Lock(holder) == holder = 0

\* Cleanup: m.logMutex.Lock(); defer m.logMutex.Unlock()
CleanupLock(c) ==
    /\ cpc[c] = "idle"
    /\ Lock(logMutex)
    /\ logMutex' = c
    /\ cpc' = [cpc EXCEPT ![c] = "select"]
    /\ UNCHANGED <<nonLogVars, logChan, logDone, logBuffer, batch, lpc, closes,
                   added, accepted, appended, lastAdd>>

\* Cleanup: select { case <-m.logDone: return; default: ... }
CleanupSelect(c) ==
    /\ cpc[c] = "select"
    /\ IF logDone
       THEN /\ cpc' = [cpc EXCEPT ![c] = "returned"]
            /\ logMutex' = IF logMutex = c THEN 0 ELSE logMutex
       ELSE /\ cpc' = [cpc EXCEPT ![c] = "close"]
            /\ UNCHANGED logMutex
    /\ UNCHANGED <<nonLogVars, logChan, logDone, logBuffer, batch, lpc, closes,
                   added, accepted, appended, lastAdd>>

\* Cleanup: close(m.logDone), and the deferred Unlock.
CleanupClose(c) ==
    /\ cpc[c] = "close"
    /\ logDone' = TRUE
    /\ closes' = closes + 1
    /\ cpc' = [cpc EXCEPT ![c] = "returned"]
    /\ logMutex' = IF logMutex = c THEN 0 ELSE logMutex
    /\ UNCHANGED <<nonLogVars, logChan, logBuffer, batch, lpc, added, accepted,
                   appended, lastAdd>>

\* ------------------------------------------------------------ specification
Next ==
    \/ ExecBegin
    \/ ExecCheckSource
    \/ ExecCreateTarget
    \/ ExecScan
    \/ ExecStartWorkers
    \/ ExecSendJob
    \/ ExecCloseJobs
    \/ Closer
    \/ ExecCollect
    \/ ExecFinish
    \/ ExecSummary
    \/ \E w \in Workers : WDequeue(w)
    \/ \E w \in Workers : WCompress(w)
    \/ \E w \in Workers : WReplaceBackup(w)
    \/ \E w \in Workers : WReplaceSwap(w)
    \/ \E w \in Workers : WReplaceCleanup(w)
    \/ \E w \in Workers : WExit(w)

Spec == Init /\ [][Next]_vars

\* Runs over a directory of at most one file with one worker: what one
\* worker does with one job, under every outcome of every call it makes.
InitFile ==
    /\ Init
    /\ dir <= 1
    /\ config.ParallelWorkers = 1

SpecFile == InitFile /\ [][Next]_vars

\* Runs at the default compression level during which Shutdown may be
\* called at any moment.
InitShutdown ==
    /\ Init
    /\ config.Level = 50

NextShutdown ==
    \/ Next
    \/ Cancel

SpecShutdown == InitShutdown /\ [][NextShutdown]_vars

\* The entity functions applied on their own to every argument of the
\* input sets, with no run of Execute going on.
InitUnit ==
    /\ Init
    /\ dir = 0
    /\ config = [ReplaceOriginal |-> FALSE, ParallelWorkers |-> 1,
                 RetryAttempts |-> 1, Level |-> 50]

NextUnit ==
    \/ UNewCompressionConfig
    \/ UValidate
    \/ UIsEffective
    \/ UAddResult
    \/ UListPDFFiles
    \/ UExecuteAll
    \/ UProcessImages

SpecUnit == InitUnit /\ [][NextUnit]_vars

\* The goroutines main and the TUI launch for StartProcessing, and
\* Shutdown; what Execute does inside StartProcessing is left out.
InitProcessor == InitUnit

NextProcessor ==
    \/ \E g \in Launches : GoStartProcessing(g)
    \/ \E g \in Launches : StartProcessingAdd(g)
    \/ \E g \in Launches : StartProcessingReturn(g)
    \/ ShutdownCancel
    \/ ShutdownWait

SpecProcessor == InitProcessor /\ [][NextProcessor]_vars

\* The TUI manager's log.  The log processor's select takes a case that
\* is ready: a case that stays ready is taken in the end, and a Cleanup
\* call that holds the mutex runs on.
InitManager == InitUnit

NextManager ==
    \/ AddLog
    \/ LPReceive
    \/ LPTick
    \/ LPDone
    \/ \E c \in Cleanups : CleanupLock(c)
    \/ \E c \in Cleanups : CleanupSelect(c)
    \/ \E c \in Cleanups : CleanupClose(c)

SpecManager ==
    /\ InitManager
    /\ [][NextManager]_vars
    /\ WF_vars(LPReceive)
    /\ WF_vars(LPTick)
    /\ WF_vars(LPDone)
    /\ \A c \in Cleanups : WF_vars(CleanupSelect(c)) /\ WF_vars(CleanupClose(c))


\* ------------------------------------------------------------- properties
InResults == {results[i] : i \in DOMAIN results}

OutcomesOf(f) == {o \in InResults : o.CurrentFile = f}

\* Some worker holds file f: it has dequeued it and not yet published.
Held(f) == \E w \in Workers : wfile[w] = f

WorkersGone == \A w \in Workers : wpc[w] \in {"off", "done"}

AllFailed(log) == \A i \in DOMAIN log : ~log[i]

\* C1: with retryAttempts >= 1, a job that has been dequeued and is no
\* longer held by a worker has exactly one Outcome published, a job that
\* has not been dequeued has none, and no job ever has two.
C1_OneOutcomePerJob ==
    config.RetryAttempts >= 1 =>
        \A f \in Files :
            /\ published[f] <= 1
            /\ (taken[f] = 0 => published[f] = 0)
            /\ (taken[f] >= 1 /\ ~Held(f) => published[f] = 1)

\* C1 witness: a failed and a successful Outcome wait in the results channel.
C1_Witness ==
    /\ config.RetryAttempts >= 1
    /\ \E o \in InResults : ~o.Success /\ published[o.CurrentFile] = 1
    /\ \E o \in InResults : o.Success /\ published[o.CurrentFile] = 1

\* C2: when Execute has returned through status.Complete after the
\* compression phase, ProcessedFiles = SuccessfulFiles + FailedFiles =
\* TotalFiles = the number of files listed.
C2_CountsAtCompletion ==
    (ret = "nil" /\ files > 0) =>
        /\ status.ProcessedFiles = status.SuccessfulFiles + status.FailedFiles
        /\ status.ProcessedFiles = status.TotalFiles
        /\ status.TotalFiles = files

\* C2 witness: a completed run with a successful and a failed file.
C2_Witness ==
    /\ ret = "nil"
    /\ status.SuccessfulFiles >= 1
    /\ status.FailedFiles >= 1

\* C3: no worker ever sends on the closed results channel; once the
\* channel is closed every started worker has returned; and the receive
\* loop of Execute has ended only when every worker has returned.
C3_CloseAfterWorkers ==
    /\ panic # "send on closed channel"
    /\ (resultsClosed => WorkersGone)
    /\ (ret = "nil" /\ files > 0 => WorkersGone /\ resultsClosed)

\* C3 witness: the channel is closed after two workers each published.
C3_Witness ==
    /\ resultsClosed
    /\ wg = 0
    /\ Cardinality({w \in Workers : wpc[w] = "done"}) >= 2
    /\ \A f \in 1..files : published[f] = 1
    /\ files >= 2

\* C4 (as claimed): originalPath resolves to a file at every point.
C4_OriginalNeverMissing == \A f \in Files : fs[f].orig # NoFile

InSwapWindow(f) == \E w \in Workers : wfile[w] = f /\ wpc[w] = "swap"

RollbackFailed(f) == replaceLog[f] = <<TRUE, FALSE, FALSE>>

\* C4 (amended): originalPath is missing only between step 1 and step 2
\* and after a failed step 2 whose rollback rename failed as well, and
\* whenever it is missing the pre-call original is at the backup path.
C4_OriginalOrBackup ==
    \A f \in Files :
        /\ fs[f].orig = NoFile =>
              /\ fs[f].backup = "old"
              /\ InSwapWindow(f) \/ RollbackFailed(f)
        /\ fs[f].orig \in {NoFile, "old", "new"}
        /\ fs[f].orig = "new" => replaceLog[f] \in {<<TRUE, TRUE>>} \cup
                                   {<<TRUE, TRUE, ok>> : ok \in BOOLEAN}

\* C4 witness: the call has returned and originalPath is missing.
C4_Witness ==
    \E f \in Files : fs[f].orig = NoFile /\ ~Held(f) /\ published[f] = 1

StepTwoFailed(f) ==
    /\ Len(replaceLog[f]) = 3
    /\ replaceLog[f][1]
    /\ ~replaceLog[f][2]

StepTwoError(f) ==
    \A o \in OutcomesOf(f) : ~o.Success /\ o.Error = Err("replace", 2)

\* C5 (as claimed): after a failed step 2 the original content is back at
\* originalPath, no backup remains and the error is that of step 2.
C5_RollbackRestores ==
    \A f \in Files :
        StepTwoFailed(f) =>
            /\ fs[f].orig = "old"
            /\ fs[f].backup = NoFile
            /\ StepTwoError(f)

\* C5 (amended): after a failed step 2 the error is that of step 2; when
\* the rollback rename succeeded the original content is back at
\* originalPath and no backup remains; when it failed too, originalPath is
\* missing and the original content is at the backup path.
C5_RollbackOutcome ==
    \A f \in Files :
        StepTwoFailed(f) =>
            /\ StepTwoError(f)
            /\ published[f] = 1
            /\ IF replaceLog[f][3]
               THEN fs[f].orig = "old" /\ fs[f].backup = NoFile
               ELSE fs[f].orig = NoFile /\ fs[f].backup = "old"

\* C5 witness: step 2 failed, the rollback succeeded, the Outcome is out.
C5_Witness ==
    \E f \in Files :
        /\ replaceLog[f] = <<TRUE, FALSE, TRUE>>
        /\ fs[f].orig = "old"
        /\ OutcomesOf(f) # {}

\* C6: in replace mode, after a successful compression and three
\* successful replacement steps, originalPath holds the compressed content,
\* neither the backup nor the temp file exists, and the one Outcome
\* published for the file is successful.
C6_SuccessfulReplacement ==
    \A f \in Files :
        replaceLog[f] = <<TRUE, TRUE, TRUE>> =>
            /\ config.ReplaceOriginal
            /\ fs[f] = [orig |-> "new", backup |-> NoFile, out |-> NoFile]
            /\ published[f] = 1
            /\ \A o \in OutcomesOf(f) : o.Success /\ o.Error = Nil

\* C6 witness: such a file, with its Outcome in the results channel.
C6_Witness ==
    \E f \in Files :
        /\ replaceLog[f] = <<TRUE, TRUE, TRUE>>
        /\ \E o \in OutcomesOf(f) : o.Success

\* C7 (as claimed): with retryAttempts <= 0 a file whose info was read is
\* compressed with exactly one call and gets its Outcome; nothing panics.
C7_NonPositiveRetryIsOne ==
    config.RetryAttempts <= 0 =>
        /\ panic = "none"
        /\ \A f \in Files :
              /\ (taken[f] >= 1 /\ ~Held(f) => published[f] = 1)
              /\ (Held(f) => Len(calls[f]) <= 1)
              /\ \A o \in OutcomesOf(f) :
                    o.Error.kind \notin {"mkdir", "fileInfo"} => Len(calls[f]) = 1

\* C8: with retryAttempts = n >= 1 there are at most n Compress calls per
\* file and none after a call that returned no error, whatever the size of
\* its output; an Outcome that carries a compression error is published
\* after exactly n failed calls, is failed and carries the error of call n;
\* and after n failed calls no other Outcome is published.
C8_RetryLoop ==
    config.RetryAttempts >= 1 =>
        \A f \in Files :
            /\ Len(calls[f]) <= config.RetryAttempts
            /\ \A i \in DOMAIN calls[f] : calls[f][i] => i = Len(calls[f])
            /\ \A o \in OutcomesOf(f) :
                  /\ o.Error.kind = "compress" =>
                        /\ Len(calls[f]) = config.RetryAttempts
                        /\ AllFailed(calls[f])
                        /\ ~o.Success
                        /\ o.Error = Err("compress", config.RetryAttempts)
                  /\ calls[f] # << >> /\ AllFailed(calls[f]) =>
                        o.Error = Err("compress", config.RetryAttempts)
                  /\ (calls[f] # << >> /\ ~AllFailed(calls[f])
                      /\ ~config.ReplaceOriginal) =>
                        /\ o.Success
                        /\ o.Error = Nil
                        /\ o.CompressedSize = CompressedSize(f)

\* C8 witness: a first call failed, the second returned an output larger
\* than the input, and the Outcome published is successful.
C8_Witness ==
    \E f \in Files :
        /\ calls[f] = <<FALSE, TRUE>>
        /\ \E o \in OutcomesOf(f) : o.Success /\ o.CompressedSize >= o.OriginalSize

\* The listing succeeded: Execute did not abort before or in ListPDFFiles.
Listed ==
    /\ epc \notin {"begin", "checkSource", "createTarget", "scan"}
    /\ status.Error.kind \notin {"sourceMissing", "createTarget", "list"}

\* C9 (as claimed): a listing of zero files ends the run with an error and
\* phase Failed, with no worker started.
C9_NoFilesIsError ==
    (Listed /\ dir = 0) =>
        /\ ret = "err"
        /\ status.Phase = "Failed"
        /\ status.Error # Nil
        /\ \A w \in Workers : wpc[w] = "off"

StatusInvariant(ps) ==
    /\ ps.ProcessedFiles = ps.SuccessfulFiles + ps.FailedFiles
    /\ ps.ProcessedFiles <= ps.TotalFiles

\* C10: the status and every snapshot handed to the progress reporter
\* satisfy ProcessedFiles = SuccessfulFiles + FailedFiles <= TotalFiles.
C10_StatusInvariant == StatusInvariant(status) /\ StatusInvariant(snapshot)

\* C10 witness: a snapshot in the middle of a run, after a failure.
C10_Witness ==
    /\ reports > 0
    /\ snapshot.FailedFiles >= 1
    /\ snapshot.ProcessedFiles < snapshot.TotalFiles

WorkersStarted == \E w \in Workers : wpc[w] # "off"

IsCompleted(ps) ==
    /\ ps.IsComplete
    /\ ps.Phase = "Completed"
    /\ ps.Progress = 100
    /\ ps.EstimatedTime = 0

\* C11: once the workers have been started Execute never returns an error
\* and never marks the status failed; when it returns, the results channel
\* is closed and drained, the status and the last snapshot have
\* IsComplete, Phase = Completed, Progress = 100, EstimatedTime = 0 and no
\* error, and the return value is nil, however many Outcomes failed.
C11_FailuresDoNotFailRun ==
    WorkersStarted =>
        /\ ret # "err"
        /\ status.Phase # "Failed"
        /\ status.Error = Nil
        /\ epc = "returned" =>
              /\ ret = "nil"
              /\ results = << >> /\ resultsClosed
              /\ IsCompleted(status)
              /\ snapshot = status

\* C11 witness: a run over two files or more in which every file failed.
C11_Witness ==
    /\ ret = "nil"
    /\ files >= 2
    /\ status.FailedFiles = files
    /\ status.SuccessfulFiles = 0

NoWorkerEver ==
    /\ \A w \in Workers : wpc[w] = "off"
    /\ wg = 0
    /\ closer = "off"
    /\ sent = 0
    /\ jobs = << >>
    /\ \A f \in Files : taken[f] = 0 /\ calls[f] = << >>

\* C12: when Execute has failed on the source directory, on creating the
\* target directory or on the listing, it has returned a non-nil error,
\* the last snapshot handed to the reporter is complete with Phase = Failed
\* and that error, no worker goroutine was started and no Compress call was
\* made; the target directory is only created outside replace mode.
C12_AbortBeforeWorkers ==
    (ret = "err" \/ status.Error # Nil) =>
        /\ epc = "returned"
        /\ ret = "err"
        /\ status.Error.kind \in {"sourceMissing", "createTarget", "list"}
        /\ status.Error.kind = "createTarget" => ~config.ReplaceOriginal
        /\ snapshot.Phase = "Failed"
        /\ snapshot.IsComplete
        /\ snapshot.Error = status.Error
        /\ NoWorkerEver

\* C12 witness: the listing failed after the Scanning snapshot.
C12_Witness ==
    /\ ret = "err"
    /\ snapshot.Error.kind = "list"
    /\ reports = 3

\* C13 (as claimed): with a level outside 10..90 and a listing of one file
\* or more, the run is aborted with an error and Phase = Failed before any
\* worker starts.
C13_InvalidLevelAborts ==
    ((config.Level < 10 \/ config.Level > 90) /\ Listed /\ dir > 0) =>
        /\ ret = "err"
        /\ status.Phase = "Failed"
        /\ status.Error # Nil
        /\ \A w \in Workers : wpc[w] = "off"

\* replaceOriginalFile returned an error for file f and the worker has
\* handled it (it calls os.Remove(outputFile) in that case only).
ReplaceErrorHandled(f) == discards[f] # << >>

ReplaceErrorOutcome(f) ==
    /\ config.ReplaceOriginal
    /\ calls[f] # << >> /\ calls[f][Len(calls[f])]
    /\ published[f] = 1
    /\ ~Held(f)
    /\ \A o \in OutcomesOf(f) :
          /\ ~o.Success
          /\ o.Error.kind = "replace"
          /\ o.OriginalSize = FileSize(f)
    /\ (status.LastResult.CurrentFile = f) =>
          /\ ~status.LastResult.Success
          /\ status.FailedFiles >= 1

\* C14 (as claimed): after a replacement error for a successfully
\* compressed file the Outcome is failed with the replacement error, the
\* file is counted as failed, the worker goes on, and the temp file no
\* longer exists.
C14_TempRemoved ==
    \A f \in Files :
        ReplaceErrorHandled(f) =>
            /\ ReplaceErrorOutcome(f)
            /\ fs[f].out = NoFile

\* C14 (amended): after a replacement error for a successfully compressed
\* file the one Outcome published for it is failed and carries the
\* replacement error, the aggregator counts it as failed, the worker
\* removes the temp file once, ignoring the result (the temp file is gone
\* when that os.Remove succeeded and is left as it was when it failed), and
\* the worker goes on: a completed run has an Outcome for every job and
\* counts every such file as failed.
C14_ReplaceFailure ==
    /\ \A f \in Files :
          ReplaceErrorHandled(f) =>
              /\ ReplaceErrorOutcome(f)
              /\ Len(discards[f]) = 1
              /\ fs[f].out = (IF discards[f][1] THEN NoFile ELSE atReturn[f].out)
              /\ fs[f].orig = atReturn[f].orig
              /\ fs[f].backup = atReturn[f].backup
    /\ ret = "nil" =>
          /\ \A f \in 1..files : published[f] = 1
          /\ status.FailedFiles >=
                Cardinality({f \in Files : ReplaceErrorHandled(f)})

\* C14 witness: the only worker went on to the second job after the
\* replacement of the first failed, and the run counted that failure.
C14_Witness ==
    /\ config.ParallelWorkers <= 1
    /\ ReplaceErrorHandled(1)
    /\ fs[1].out = NoFile
    /\ taken[2] = 1
    /\ ret = "nil"
    /\ status.FailedFiles >= 1

\* C15: when step 1 of replaceOriginalFile failed, the call returned the
\* step-1 error with the file system as it was before the call: the
\* original at originalPath, no backup, the temp file still present; the
\* worker (the caller) then discards the temp file and publishes a failed
\* Outcome with that error, and the original stays untouched.
C15_BackupFailureChangesNothing ==
    \A f \in Files :
        replaceLog[f] = << FALSE >> =>
            /\ atReturn[f] = [orig |-> "old", backup |-> NoFile, out |-> "new"]
            /\ Len(discards[f]) = 1
            /\ fs[f].orig = "old"
            /\ fs[f].backup = NoFile
            /\ published[f] = 1
            /\ \A o \in OutcomesOf(f) : ~o.Success /\ o.Error = Err("replace", 1)

\* C15 witness: step 1 failed with the temp file present, and the worker
\* has removed the temp file since.
C15_Witness ==
    \E f \in Files :
        /\ replaceLog[f] = << FALSE >>
        /\ atReturn[f].out = "new"
        /\ discards[f] = << TRUE >>
        /\ fs[f] = FreshFile

\* C16: when steps 1 and 2 succeeded and the removal of the backup failed,
\* replaceOriginalFile returned nil: the worker did not take its error
\* branch, the one Outcome published for the file is successful with no
\* error, originalPath holds the compressed content and the backup is
\* left behind.
C16_CleanupFailureIsSuccess ==
    \A f \in Files :
        replaceLog[f] = << TRUE, TRUE, FALSE >> =>
            /\ discards[f] = << >>
            /\ published[f] = 1
            /\ \A o \in OutcomesOf(f) : o.Success /\ o.Error = Nil
            /\ fs[f] = [orig |-> "new", backup |-> "old", out |-> NoFile]
            /\ atReturn[f] = fs[f]
            /\ (status.LastResult.CurrentFile = f) =>
                  status.LastResult.Success /\ status.SuccessfulFiles >= 1

\* C16 witness: such a file has been counted as successful.
C16_Witness ==
    \E f \in Files :
        /\ replaceLog[f] = << TRUE, TRUE, FALSE >>
        /\ fs[f].backup = "old"
        /\ status.LastResult.CurrentFile = f
        /\ status.SuccessfulFiles = 1

InJobs(f) == Cardinality({i \in DOMAIN jobs : jobs[i] = f})

Holders(f) == {w \in Workers : wfile[w] = f}

\* C17: every listed file is enqueued once and dequeued at most once: a
\* file the producer has sent is either in the job queue once or was taken
\* once, never both and never twice, no two workers hold the same file, and
\* when the run has completed every listed file was taken exactly once.
C17_EachJobOnce ==
    /\ sent <= files
    /\ \A f \in Files :
          /\ taken[f] <= 1
          /\ InJobs(f) + taken[f] = (IF f <= sent THEN 1 ELSE 0)
          /\ Cardinality(Holders(f)) <= taken[f]
          /\ (ret = "nil" /\ f <= files) => taken[f] = 1

\* C17 witness: two workers hold two different jobs at the same time.
C17_Witness ==
    \E v, w \in Workers :
        /\ v # w
        /\ wfile[v] # 0
        /\ wfile[w] # 0
        /\ wfile[v] # wfile[w]
        /\ taken[wfile[v]] = 1
        /\ taken[wfile[w]] = 1

Unpublished == Cardinality({f \in 1..files : published[f] = 0})

\* C18 (as claimed): a run is never stuck before Execute has returned: the
\* producer can always send or close, the results channel has room for
\* every Outcome still to come, and as long as Execute has not returned
\* some goroutine can take a step; a run that has returned after starting
\* workers has reached status.Complete with every worker gone and the
\* results channel closed.
C18_RunTerminates ==
    /\ epc = "produce" => ENABLED (ExecSendJob \/ ExecCloseJobs)
    /\ Len(results) + Unpublished <= files
    /\ epc = "returned" \/ ENABLED Next
    /\ (epc = "returned" /\ WorkersStarted) =>
          WorkersGone /\ resultsClosed /\ IsCompleted(status)

Started == {w \in Workers : wpc[w] # "off"}

\* C19: as soon as Execute is past the worker start, the number of worker
\* goroutines started is ParallelWorkers when that is 1 or more and
\* exactly one otherwise; and a completed run has taken, published and
\* counted every listed file.
C19_WorkerCount ==
    /\ WorkersStarted =>
          Cardinality(Started) =
             (IF config.ParallelWorkers >= 1 THEN config.ParallelWorkers ELSE 1)
    /\ (epc \in {"produce", "collect"} \/ (ret = "nil" /\ files > 0)) =>
          WorkersStarted
    /\ (ret = "nil" /\ files > 0) =>
          /\ status.ProcessedFiles = files
          /\ \A f \in 1..files : taken[f] = 1 /\ published[f] = 1

\* C19 witness: with ParallelWorkers <= 0 one worker processed two files.
C19_Witness ==
    /\ config.ParallelWorkers <= 0
    /\ ret = "nil"
    /\ files = 2
    /\ status.ProcessedFiles = 2
    /\ Cardinality(Started) = 1

Terminal(phase) == phase \in {"Completed", "Failed"}

\* A phase change from a to b that the order allows.
PhaseStep(a, b) ==
    \/ a = b
    \/ /\ ~Terminal(a)
       /\ b = "Failed" \/ PhaseRank(b) > PhaseRank(a)

\* C20: in every step of a run the phase of the status and of the snapshot
\* last handed to the reporter stays the same, moves forward in the order
\* Initializing, Scanning, Compressing, Replacing, Completed, or becomes
\* Failed from a non-terminal phase; Completed and Failed are never left.
C20_PhaseOrder ==
    [][/\ PhaseStep(snapshot.Phase, snapshot'.Phase)
       /\ PhaseStep(status.Phase, status'.Phase)]_vars

\* C20 witness: the reporter has seen Initializing, Scanning, Compressing,
\* two per-file snapshots and Completed.
C20_Witness ==
    /\ snapshot.Phase = "Completed"
    /\ snapshot.ProcessedFiles = 2
    /\ reports = 6

\* C21: once IsComplete is true, no step of the run changes any field of
\* its ProcessingStatus: Complete and Fail are the last writes to it.
C21_CompleteIsFinal == [][status.IsComplete => status' = status]_vars

\* A run over at least one file has logged its summary after Complete and
\* has returned.
C21_Witness ==
    /\ epc = "returned"
    /\ ret = "nil"
    /\ files > 0
    /\ status.IsComplete
    /\ status.ProcessedFiles = files

\* The position in delivered of the Processing-phase snapshot (0 if none).
ProcessingAt ==
    LET at == {i \in 1..Len(delivered) : delivered[i].Phase = "Compressing"}
    IN  IF at = {} THEN 0 ELSE CHOOSE i \in at : \A j \in at : i <= j

\* C23: the reporter receives one snapshot per Outcome the aggregator took
\* from the results channel: after the Processing-phase snapshot come
\* snapshots with ProcessedFiles = 1, 2, ..., one per Outcome received so
\* far and none skipped, then, as the last one of a run over n files, the
\* Completed snapshot in place n + 1; the snapshots the reporter holds
\* keep the values they were delivered with.
C23_OneSnapshotPerOutcome ==
    LET k == ProcessingAt
    IN  /\ Len(delivered) = reports
        /\ delivered # << >> => delivered[Len(delivered)] = snapshot
        /\ k > 0 =>
            /\ status.Phase = "Compressing" =>
                   Len(delivered) = k + status.ProcessedFiles
            /\ \A i \in k..Len(delivered) :
                /\ delivered[i].Phase \in {"Compressing", "Completed"}
                /\ delivered[i].Phase = "Compressing" =>
                       delivered[i].ProcessedFiles = i - k
                /\ delivered[i].Phase = "Completed" =>
                       /\ i = Len(delivered)
                       /\ i = k + files + 1
                       /\ delivered[i].ProcessedFiles = files

\* A run over two or more files has returned: the reporter holds the
\* snapshots of the first and of the second Outcome and the Completed one.
C23_Witness ==
    /\ ret = "nil"
    /\ files >= 2
    /\ ProcessingAt > 0
    /\ Len(delivered) = ProcessingAt + files + 1
    /\ delivered[ProcessingAt + 1].ProcessedFiles = 1
    /\ delivered[ProcessingAt + 2].ProcessedFiles = 2
    /\ delivered[Len(delivered)].Phase = "Completed"

\* The started workers whose local variables a step changes.
Movers ==
    {w \in Workers : /\ wpc[w] # "off"
                     /\ <<wpc[w], wfile[w], wattempt[w], wresult[w]>> #
                        <<wpc'[w], wfile'[w], wattempt'[w], wresult'[w]>>}

\* A step of a worker goroutine: it takes a job, calls Compress, touches
\* the file system, publishes, or moves on in its body.
WorkerStep ==
    \/ Movers # {}
    \/ taken' # taken
    \/ calls' # calls
    \/ published' # published
    \/ fs' # fs

\* What is in the results channel stays as it was sent: a step appends to
\* the buffer or takes its head off and alters no element of it.
ResultsKept ==
    \E k \in {0, 1} :
        /\ k <= Len(results)
        /\ Len(results') >= Len(results) - k
        /\ \A i \in (k + 1)..Len(results) : results'[i - k] = results[i]

C25_CancelStopsDequeue == [][cancelled => taken' = taken]_vars

\* C24: every Outcome in the results channel with OriginalSize > 0, failed
\* or not, has CompressedSize = OriginalSize - SavedSpace and
\* CompressionRatio = SavedSpace / OriginalSize * 100.
C24_DerivedFields ==
    \A i \in 1..Len(results) :
        LET r == results[i]
        IN  r.OriginalSize > 0 =>
                /\ r.CompressedSize = r.OriginalSize - r.SavedSpace
                /\ r.CompressionRatio = (r.SavedSpace * 100) \div r.OriginalSize

\* The same for the Outcomes of files whose Compress call returned nil.
C24_DerivedFieldsAfterCompress ==
    \A i \in 1..Len(results) :
        LET r == results[i]
        IN  r.OriginalSize > 0 /\ r.Error.kind # "compress" =>
                /\ r.CompressedSize = r.OriginalSize - r.SavedSpace
                /\ r.CompressionRatio = (r.SavedSpace * 100) \div r.OriginalSize
                /\ r.SavedSpace < 0 <=> r.CompressedSize > r.OriginalSize

\* The sum of a field over the successful results of a sequence.
RECURSIVE SumSuccessful(_, _)
SumSuccessful(rs, field) ==
    IF rs = << >> THEN 0
    ELSE LET r == rs[Len(rs)]
         IN  SumSuccessful(SubSeq(rs, 1, Len(rs) - 1), field) +
             (IF r.Success /\ r.Error = Nil THEN r[field] ELSE 0)

\* The status after AddResult was called with each result of a sequence.
RECURSIVE AfterAll(_)
AfterAll(rs) ==
    IF rs = << >> THEN NewProcessingStatus(MaxAdds)
    ELSE AddResult(AfterAll(SubSeq(rs, 1, Len(rs) - 1)), rs[Len(rs)])

Totals(ps) ==
    <<ps.TotalOriginalSize, ps.TotalCompressedSize, ps.AverageCompression,
      ps.SuccessfulFiles, ps.FailedFiles>>

\* The mean of the ratios of the successful results of a sequence.
MeanOfRatios(rs) ==
    LET n == Cardinality({i \in 1..Len(rs) : rs[i].Success /\ rs[i].Error = Nil})
    IN  IF n = 0 THEN 0 ELSE SumSuccessful(rs, "CompressionRatio") \div n

\* C22: after any sequence of AddResult calls the two totals are the sums
\* over the successful results, the average is computed from the two
\* totals, and the results in any other order give the same totals and
\* average.
C22_TotalsOfSuccesses ==
    unit.fn = "AddResult" =>
        LET rs == unit.results
            ps == unit.status
        IN  /\ ps.TotalOriginalSize = SumSuccessful(rs, "OriginalSize")
            /\ ps.TotalCompressedSize = SumSuccessful(rs, "CompressedSize")
            /\ ps.TotalOriginalSize > 0 =>
                   ps.AverageCompression =
                       ((ps.TotalOriginalSize - ps.TotalCompressedSize) * 100)
                           \div ps.TotalOriginalSize
            /\ \A p \in Permutations(1..Len(rs)) :
                   Totals(AfterAll([i \in 1..Len(rs) |-> rs[p[i]]])) = Totals(ps)

\* Results were added, a failed one with sizes among them, and the average
\* from the totals is not the mean of the ratios of the successes.
C22_Witness ==
    /\ unit.fn = "AddResult"
    /\ Len(unit.results) >= 3
    /\ \E i \in 1..Len(unit.results) :
          ~unit.results[i].Success /\ unit.results[i].OriginalSize > 0
    /\ unit.status.SuccessfulFiles >= 2
    /\ unit.status.TotalOriginalSize > 0
    /\ unit.status.AverageCompression # MeanOfRatios(unit.results)

\* C28: NewCompressionConfig(level) has Level = min(90, max(10, level)),
\* the settings of the tier of that level, and passes Validate.
C28_ClampAndTiers ==
    unit.fn = "NewCompressionConfig" =>
        LET c == unit.config
            l == IF unit.level < 10 THEN 10
                 ELSE IF unit.level > 90 THEN 90 ELSE unit.level
            settings == <<c.ImageQuality, c.RemoveMetadata, c.RemoveAnnotations,
                          c.RemoveAttachments>>
        IN  /\ c.Level = l
            /\ l \in 10..20 => settings = <<90, FALSE, FALSE, FALSE>>
            /\ l \in 21..40 => settings = <<75, TRUE, FALSE, FALSE>>
            /\ l \in 41..60 => settings = <<60, TRUE, TRUE, FALSE>>
            /\ l \in 61..80 => settings = <<40, TRUE, TRUE, TRUE>>
            /\ l \in 81..90 => settings = <<25, TRUE, TRUE, TRUE>>
            /\ unit.err = Nil

\* NewCompressionConfig was applied to a level above 90 and clamped it.
C28_Witness ==
    /\ unit.fn = "NewCompressionConfig"
    /\ unit.level > 90
    /\ unit.config.Level = 90
    /\ unit.config.ImageQuality = 25

\* C29: Validate returns an error exactly when Level is outside 10..90 or
\* ImageQuality is outside 10..100, and leaves the configuration as it was.
C29_ValidateRanges ==
    unit.fn = "Validate" =>
        /\ unit.err # Nil <=>
               \/ unit.config.Level \notin 10..90
               \/ unit.config.ImageQuality \notin 10..100
        /\ unit.after = unit.config

\* Validate rejected a configuration whose level is in range and whose
\* image quality is not.
C29_Witness ==
    /\ unit.fn = "Validate"
    /\ unit.config.Level \in 10..90
    /\ unit.config.ImageQuality > 100
    /\ unit.err # Nil

\* C30: IsEffective is true exactly when Success is true and the ratio is
\* above 0.
C30_IsEffective ==
    unit.fn = "IsEffective" =>
        LET cr == unit.result
        IN  /\ unit.effective <=> (cr.Success /\ ~(cr.CompressionRatio <= 0))
            /\ cr.Success /\ cr.CompressionRatio = 0 => ~unit.effective
            /\ ~cr.Success /\ cr.CompressionRatio > 0 => ~unit.effective

\* IsEffective was applied to a successful result with ratio 0.
C30_Witness ==
    /\ unit.fn = "IsEffective"
    /\ unit.result.Success
    /\ unit.result.CompressionRatio = 0
    /\ ~unit.effective

\* C35: after any sequence of AddResult calls, TotalSavedSpace is
\* TotalOriginalSize - TotalCompressedSize.
C35_SavedIsDifference ==
    unit.fn = "AddResult" =>
        unit.status.TotalSavedSpace =
            unit.status.TotalOriginalSize - unit.status.TotalCompressedSize

\* The same for sequences whose successful results all have a positive
\* OriginalSize.
C35_SavedIsDifferenceOfSized ==
    /\ unit.fn = "AddResult"
    /\ \A i \in 1..Len(unit.results) :
          unit.results[i].Success /\ unit.results[i].Error = Nil =>
              unit.results[i].OriginalSize > 0
    => unit.status.TotalSavedSpace =
           unit.status.TotalOriginalSize - unit.status.TotalCompressedSize

\* C33: in the retry loop of a file the worker sleeps, for the same delay
\* each time, after each failed attempt but the last allowed one and at no
\* other moment: with the first success at attempt k there were k - 1
\* sleeps, after n = retryAttempts failed attempts there were n - 1.
C33_SleepBetweenAttempts ==
    config.RetryAttempts >= 1 =>
        \A f \in Files :
            LET c == calls[f]
                n == config.RetryAttempts
            IN  /\ \A i \in DOMAIN sleeps[f] :
                      /\ sleeps[f][i].delay = RetryDelay
                      /\ sleeps[f][i].after = i
                      /\ i <= Len(c)
                      /\ ~c[i]
                      /\ i < n
                /\ (c # << >> /\ c[Len(c)]) => Len(sleeps[f]) = Len(c) - 1
                /\ (Len(c) = n /\ AllFailed(c)) => Len(sleeps[f]) = n - 1
                /\ (c # << >> /\ Len(c) < n /\ AllFailed(c)
                    /\ \A w \in Workers : wfile[w] = f => wpc[w] = "compress")
                       => Len(sleeps[f]) = Len(c)

\* A file failed twice, the worker slept once, and the Outcome after the
\* final failure is published.
C33_Witness ==
    \E f \in Files :
        /\ config.RetryAttempts = 2
        /\ calls[f] = <<FALSE, FALSE>>
        /\ Len(sleeps[f]) = 1
        /\ published[f] = 1

\* File f got a failed Outcome without a successful Compress call: its
\* output directory could not be made, its file info could not be read, or
\* every allowed Compress call failed.
FailedFile(f) == published[f] = 1 /\ AllFailed(calls[f])

\* C34: once a file has failed, the pool goes on: the worker that failed
\* holds the file no more, the process runs, a job still in the queue has
\* a worker to take it, and when Execute has returned every listed file
\* has its Outcome.
C34_FailureDoesNotStopPool ==
    \A f \in Files :
        FailedFile(f) =>
            /\ ~Held(f)
            /\ Running
            /\ jobs # << >> => \E w \in Workers : wpc[w] \notin {"off", "done"}
            /\ epc = "returned" =>
                  \A g \in 1..files : published[g] = 1 /\ taken[g] = 1

\* The entry and every directory above it exist and can be read.
RECURSIVE Reachable(_, _)
Reachable(t, e) ==
    /\ t.state[e] # "absent"
    /\ IF e.dir = Str("r") THEN t.rootOk
       ELSE \E d \in Universe :
               /\ PathOf(d) = e.dir
               /\ t.state[d] = "ok"
               /\ Reachable(t, d)

\* C31: ListPDFFiles returns, sorted by path and each once, the paths of
\* the files below the root that are PDF files by their extension in any
\* case and that the walk can reach; a directory that cannot be read is
\* skipped with what is below it; no error is returned, and the list is
\* empty when nothing matches.
C31_ListPDFFiles ==
    unit.fn = "ListPDFFiles" =>
        LET t == unit.tree
            list == unit.list.files
            expected == {PathOf(e) : e \in {e \in Universe :
                            ~e.isDir /\ e.pdf /\ Reachable(t, e)}}
        IN  /\ unit.list.err = Nil
            /\ {list[i] : i \in DOMAIN list} = expected
            /\ \A i \in 1..(Len(list) - 1) : StrLess(list[i], list[i + 1])
            /\ expected = {} => list = << >>

\* ListPDFFiles on a tree whose walk meets "r/a/..." before "r/a-/...",
\* with a directory named like a PDF file and an unreadable directory that
\* holds a PDF file.
C31_Witness ==
    /\ unit.fn = "ListPDFFiles"
    /\ Len(unit.list.files) = 4
    /\ unit.list.files[1] = Join(Join(Str("r"), Str("a-")), Str("x.pdf"))
    /\ \E e \in Universe : e.isDir /\ e.name = Str("d.pdf") /\ unit.tree.state[e] = "ok"
    /\ \E e \in Universe : e.name = Str("b") /\ unit.tree.state[e] = "unreadable"
    /\ \E e \in Universe : e.name = Str("w.Pdf") /\ unit.tree.state[e] = "ok"

\* C40: Execute runs the PDF stage before the image stage; an error of the
\* PDF stage is returned wrapped with the image stage not started; with no
\* stage selected it returns an error; and it returns nil only when some
\* stage ran and every stage that ran returned no error.
C40_StagesInOrder ==
    unit.fn = "ExecuteAll" =>
        LET c == unit.config
            r == unit.result
            selected == (c.Algorithm # "") \/ c.EnableJPEG \/ c.EnablePNG
        IN  /\ r.ran \in {<< >>, <<"pdf">>, <<"images">>, <<"pdf", "images">>}
            /\ (c.Algorithm # "" /\ unit.pdfErr # Nil) =>
                  /\ r.ran = <<"pdf">>
                  /\ r.err # Nil
                  /\ r.err.cause = unit.pdfErr
            /\ ~selected => r.ran = << >> /\ r.err # Nil
            /\ r.err = Nil =>
                  /\ r.ran # << >>
                  /\ \A i \in DOMAIN r.ran :
                        /\ r.ran[i] = "pdf" => unit.pdfErr = Nil
                        /\ r.ran[i] = "images" => unit.imageErr = Nil
            /\ (selected /\ (c.Algorithm # "" => unit.pdfErr = Nil)
                /\ ((c.EnableJPEG \/ c.EnablePNG) => unit.imageErr = Nil)) =>
                  r.err = Nil

\* Both stages were selected and the PDF stage failed while the image
\* stage would have succeeded.
C40_Witness ==
    /\ unit.fn = "ExecuteAll"
    /\ unit.config.Algorithm # ""
    /\ unit.config.EnablePNG
    /\ unit.pdfErr # Nil
    /\ unit.imageErr = Nil
    /\ unit.result.ran = <<"pdf">>
    /\ unit.result.err # Nil

\* C37: with replaceOriginal, after ProcessImagesInDirectory the path of
\* every image holds the original content or the compressed content.
C37_OriginalOrCompressed ==
    (unit.fn = "ProcessImagesInDirectory" /\ unit.replaceOriginal) =>
        \A i \in DOMAIN unit.returned.result.entries :
            unit.returned.result.entries[i].in \in {"old", "new"}

\* The same for the images whose encoded output was smaller than 95% of
\* the input, and for those a call failed for before the fallback copy.
C37_OriginalOrCompressedWhenEffective ==
    (unit.fn = "ProcessImagesInDirectory" /\ unit.replaceOriginal) =>
        \A i \in DOMAIN unit.returned.result.entries :
            (unit.paths[i].effective \/ unit.paths[i].fail \in {"open", "encode", "createOut"})
                => unit.returned.result.entries[i].in \in {"old", "new"}

\* The images among the paths of the recorded walk, the members of a list
\* of the result, and whether the configuration enables an image's format.
ImagesMet == {i \in DOMAIN unit.paths : unit.paths[i].kind \in {"jpeg", "png"}}

ListedIn(list) == {list[k] : k \in DOMAIN list}

FormatEnabled(i) ==
    IF unit.paths[i].kind = "jpeg"
    THEN unit.config.EnableJPEG ELSE unit.config.EnablePNG

\* TotalFiles = SuccessfulFiles + len(FailedFiles), len(ProcessedFiles) =
\* SuccessfulFiles, and with image compression enabled every image met is
\* in exactly one of the two lists, once, and no other path is in either.
RecordedExactlyOnce ==
    LET r == unit.returned.result
    IN  /\ unit.returned.err = Nil
        /\ r.TotalFiles = r.SuccessfulFiles + Len(r.FailedFiles)
        /\ Len(r.ProcessedFiles) = r.SuccessfulFiles
        /\ (unit.config.EnableJPEG \/ unit.config.EnablePNG) =>
              /\ r.TotalFiles = Cardinality(ImagesMet)
              /\ ListedIn(r.ProcessedFiles) \cup ListedIn(r.FailedFiles) = ImagesMet
              /\ ListedIn(r.ProcessedFiles) \cap ListedIn(r.FailedFiles) = {}
              /\ Cardinality(ListedIn(r.ProcessedFiles)) = Len(r.ProcessedFiles)
              /\ Cardinality(ListedIn(r.FailedFiles)) = Len(r.FailedFiles)

C36_ShutdownWaitsForLaunched ==
    shutdown = "returned" =>
        \A g \in Launches : goroutines[g] \in {"none", "returned"}

CleanupReturned == \E c \in Cleanups : cpc[c] = "returned"

SeqMembers(q) == {q[k] : k \in DOMAIN q}

LastLines(q, n) == IF Len(q) > n THEN SubSeq(q, Len(q) - n + 1, Len(q)) ELSE q

\* C39: AddLog always returns: it queues the line behind the pending ones
\* when fewer than LogChanCap are pending and drops it otherwise; the
\* accepted lines reach logBuffer in arrival order, in batches of at most
\* LogBatchSize; every accepted line is appended to logBuffer in the end
\* unless Cleanup is called; logBuffer holds the last MaxLogBufferSize
\* lines appended at most.
C39_AddLog ==
    /\ [](/\ added < MaxLines => ENABLED AddLog
          /\ lastAdd.line > 0 => (lastAdd.queued <=> lastAdd.pending < LogChanCap)
          /\ Len(logChan) <= LogChanCap
          /\ appended \o batch \o logChan = accepted
          /\ Len(batch) < LogBatchSize
          /\ Len(logBuffer) <= MaxLogBufferSize
          /\ logBuffer = LastLines(appended, MaxLogBufferSize))
    /\ \A l \in 1..MaxLines :
          (l \in SeqMembers(accepted)) ~> (l \in SeqMembers(appended) \/ logDone)

\* A line was dropped because the channel was full, and logBuffer has lost
\* its oldest lines, before any Cleanup.
C39_Witness ==
    /\ ~logDone
    /\ Len(accepted) < added
    /\ Len(appended) > MaxLogBufferSize
    /\ Len(logBuffer) = MaxLogBufferSize

====
